---- MODULE Spec2Model ----
(***************************************************************************)
(* A model of flockmanager (src/index.js, lines 1-1017: the current        *)
(* FlockManager / FlockPairer / Flock / apply / Autobee).                  *)
(*                                                                         *)
(* One group ("flock") is replicated by the peers in Peers.  Every peer    *)
(* owns one append-only log (its Autobase local core).  A peer knows a     *)
(* prefix of every log (seen); its view and its writer set are the replay  *)
(* of the causally ordered nodes it knows through apply().                 *)
(***************************************************************************)
EXTENDS Integers, Sequences, FiniteSets, TLC

VARIABLES
  log,        \* log[w]: the nodes writer w appended (Autobase local core)
  seen,       \* seen[r][w]: how many nodes of w's log replica r holds
  view,       \* view[r][k]: the Hyperbee view of replica r
  wr,         \* wr[r]: the writer set (quorum) replica r has applied
  st,         \* st[r]: where peer r is: idle, pairing, opening, open, left
  presented,  \* presented[c]: the invite id candidate c transmits
  reply,      \* reply[m][c]: what member m's _onAddMember did with c's request
  resolved,   \* resolved[c]: FlockPairer.finished() has resolved with c's flock
  invite,     \* invite[r]: flock.invite as set by _open
  announce,   \* announce[r]: _announceUserData is waiting for writable
  res,        \* res[r]: which resources of r's flock are held
  lv,         \* lv[r]: where leave() is: none, wait, exit, done
  elapsed,    \* elapsed[r]: ms waited since removeWriter was appended
  leaveErr,   \* leaveErr[r]: the error leave() recorded
  puts,       \* puts[r]: user writes replica r has issued
  all,            \* FlockManager.all: localId -> the flock registered under it
  discoveryKeys,  \* FlockManager.discoveryKeys
  managerInfo,    \* the localIds stored under 'managerInfo' in managerBee
  pairers,        \* the FlockPairers whose finished() is awaited by create
  nextId,         \* how many localIds create() has handed out
  lastCall,       \* the last create(invite) call and what it returned
  userData,   \* userData[r]: Flock._userData of peer r
  lastSet,    \* the last Flock.set call: who, key, data, whether it resolved
  rejected,   \* rejected[c]: the error finished() of c's pairer rejected with
  partition,  \* partition[r]: the times r left the topic and what it missed
  infoUpdate, \* infoUpdate[r]: the _updateInfo runs chained on _infoUpdate
              \* that have not completed; the first of them is running
  opening,    \* opening[r]: where _open is with its own _updateInfo call
  updates,    \* updates[r]: 'update' events the autobee of r has emitted
  allDataThere,   \* allDataThere[r]: 'allDataThere' events r's flocks emitted
  info,       \* info[r]: the view version in this._info, the versions the
              \* running _updateInfo calls read, 'update' events emitted
  pairer,     \* pairer[c]: the handles of c's FlockPairer and its close calls
  isSaving,       \* FlockManager.isSaving
  closingDown,    \* FlockManager.closingDown
  ops,            \* save / _remove calls between their awaits on managerBee
  mgr,            \* the manager: open, waiting, teardown, closed
  muser,          \* FlockManager._userData
  shared,         \* shared[id]: the manager's profile in group id, here and
                  \* on the other member
  left,           \* the localIds whose flock has left
  closeCalls,     \* close() calls on this manager so far
  exits,          \* exits[id]: _exit calls _close made on flock id
  released,       \* released[x]: close / destroy calls on shared resource x
  leaving,        \* leaving[id]: leave() calls on flock id not yet in _exit
  enabled,        \* chaos.enabled of the fault harness
  enabledAt,      \* chaos.enabledAt (-1: null)
  epoch,          \* chaos.epoch
  now,            \* the clock setTimeout runs on
  timers,         \* chaos.timers: the pending setChaosTimeout calls, in order
  conns,          \* conns[c]: connection c of the manager's swarm
  chaosFlocks     \* chaosFlocks[f]: flock f as the harness sees it

apiVars == <<userData, lastSet, rejected, partition>>
infoVars == <<infoUpdate, opening, updates, allDataThere, info>>
flockVars == <<log, seen, view, wr, st, presented, reply, resolved, invite,
               announce, res, lv, elapsed, leaveErr, puts, apiVars, infoVars,
               pairer>>
closeVars == <<closeCalls, exits, released, leaving>>
idxVars == <<isSaving, closingDown, ops, mgr, muser, shared, left, closeVars>>
chaosVars == <<enabled, enabledAt, epoch, now, timers, conns, chaosFlocks>>
regVars == <<all, discoveryKeys, managerInfo, pairers, nextId, lastCall,
             idxVars, chaosVars>>
managerVars == <<all, discoveryKeys, managerInfo, pairers, nextId, lastCall,
                 idxVars>>
vars == <<flockVars, regVars>>
dataVars == <<log, seen, view, wr, announce>>

----------------------------------------------------------------------------
(* Bounds and constants                                                    *)

Peers == {"a", "b", "c"}
Founder == "a"
Rank == [a |-> 1, b |-> 2, c |-> 3]

MaxPuts == 1            \* user writes to the shared key per replica
TickMs == 1000          \* granularity of the clock during the leave wait
LEAVE_GRACE_MS == 1000

Null == "null"
Undefined == "undefined"
NoError == "none"

InviteKey == "inviteInfo"
RaceKey == "shared/race"
ProfileKey == [a |-> "flockInfo/members/a", b |-> "flockInfo/members/b",
               c |-> "flockInfo/members/c"]
Keys == {InviteKey, RaceKey} \cup {ProfileKey[p] : p \in Peers}

GroupInviteId == "I1"           \* the id BlindPairing.createInvite returns
InviteIds == {GroupInviteId, "Ix"}
UserValue == [a |-> "alpha", b |-> "bravo", c |-> "charlie"]
Profile == [a |-> "profile-a", b |-> "profile-b", c |-> "profile-c"]

MaxFlocks == 3          \* localIds one manager hands out

\* Invite tokens passed to FlockManager.create: none, the invites of two
\* groups, a string that is not z-base-32, and z-base-32 text that is not
\* an invite.
NoInvite == ""
Tokens == {NoInvite, "invite-g1", "invite-g2", "not z32!", "ybndrfg8"}

----------------------------------------------------------------------------
(* The causal log: nodes and their deterministic order                     *)

ZeroClock == [p \in Peers |-> 0]

RECURSIVE SumOver(_, _)
SumOver(f, S) ==
  IF S = {} THEN 0
  ELSE LET x == CHOOSE y \in S : TRUE IN f[x] + SumOver(f, S \ {x})

\* The order Autobase hands nodes to apply: a linear extension of the causal
\* order (a node's clock dominates the clocks of its causes), ties between
\* concurrent nodes broken by writer key.
Before(n, m) ==
  \/ n.depth < m.depth
  \/ n.depth = m.depth /\ Rank[n.from] < Rank[m.from]

RECURSIVE Linearize(_)
Linearize(S) ==
  IF S = {} THEN <<>>
  ELSE LET first == CHOOSE n \in S : \A m \in S \ {n} : Before(n, m)
       IN <<first>> \o Linearize(S \ {first})

NodesAt(lg, sn) == UNION {{lg[w][i] : i \in 1..sn[w]} : w \in Peers}

\* The node writer w appends while holding the prefixes sn: its clock names
\* its causes, its depth is the number of nodes in its causal past.
Node(w, type, key, value, sn) ==
  [from |-> w, type |-> type, key |-> key, value |-> value,
   clock |-> [sn EXCEPT ![w] = sn[w] + 1],
   depth |-> SumOver(sn, Peers) + 1]

----------------------------------------------------------------------------
(* apply (src/index.js 818-842) and Autobee.apply (882-902)                *)

EmptyView == [k \in Keys |-> Null]
Bootstrap == [view |-> EmptyView, writers |-> {Founder}]

\* The first loop of apply: addWriter / removeWriter go to the base.
RECURSIVE ApplyMembership(_, _)
ApplyMembership(batch, writers) ==
  IF batch = <<>> THEN writers
  ELSE LET op == Head(batch) IN
       ApplyMembership(Tail(batch),
         IF op.type = "addWriter" THEN writers \cup {op.key}
         ELSE IF op.type = "removeWriter" THEN writers \ {op.key}
         ELSE writers)

\* Autobee.apply: put and del are staged in one batch and flushed.
RECURSIVE AutobeeApply(_, _)
AutobeeApply(batch, v) ==
  IF batch = <<>> THEN v
  ELSE LET op == Head(batch) IN
       AutobeeApply(Tail(batch),
         IF op.type = "put" THEN [v EXCEPT ![op.key] = op.value]
         ELSE IF op.type = "del" THEN [v EXCEPT ![op.key] = Null]
         ELSE v)

\* A faulty apply in which a data operation touches the quorum: the author
\* of a del drops out of the writer set.
applyDelDropsWriter(batch, s) ==
  [view |-> AutobeeApply(batch, s.view),
   writers |-> ApplyMembership(batch, s.writers) \
                 {batch[i].from : i \in {j \in 1..Len(batch) : batch[j].type = "del"}}]

\* A faulty apply in which addWriter for a key that was a writer already
\* removes it.
applyAddTogglesWriter(batch, s) ==
  [view |-> AutobeeApply(batch, s.view),
   writers |-> ApplyMembership(batch, s.writers) \
                 ({batch[i].key : i \in {j \in 1..Len(batch) :
                                           batch[j].type = "addWriter"}}
                    \cap s.writers)]

apply(batch, s) ==
  [view |-> AutobeeApply(batch, s.view),
   writers |-> ApplyMembership(batch, s.writers)]

\* Autobase replays the ordered nodes; a node of a key that is not a writer
\* at that point is not handed to apply.
RECURSIVE Replay(_, _)
Replay(nodes, s) ==
  IF nodes = <<>> THEN s
  ELSE LET n == Head(nodes) IN
       Replay(Tail(nodes),
              IF n.from \in s.writers THEN apply(<<n>>, s) ELSE s)

Materialize(lg, sn) == Replay(Linearize(NodesAt(lg, sn)), Bootstrap)

----------------------------------------------------------------------------------------------------------------------------------------
(* FlockManager: the registry of one manager (src/index.js 26-377)         *)

LocalIds == 1..MaxFlocks
NoCall == [token |-> Null, ret |-> Null]
NoFlock == [dk |-> Null, discoveryKey |-> Null, custom |-> Null,
            isNew |-> FALSE]

\* opts.custom passed to create(): none (the flock's custom is {}) or an
\* object of the application.
EmptyObject == "{}"
Customs == {EmptyObject, "{team: core}"}

\* The profiles setUserData is called with.
UserDatas == {"{name: alpha}", "{name: beta}"}

\* managerBee 'managerInfo': localId -> custom, Null where there is no entry.
NoIndex == [i \in LocalIds |-> Null]
NoShare == [joined |-> FALSE, mine |-> Null, theirs |-> Null]

MaxCloses == 3          \* close() calls on one manager

\* What _close of the manager closes after the flocks have exited.
Resources == {"localBee", "managerBee", "pairing", "swarm", "corestore"}

\* getOptions(localId): this.corestore.namespace(localId), the store of one
\* flock; swarm and pairing are the manager's own, shared by all flocks.
Namespace == [i \in LocalIds |-> "corestore/" \o ToString(i)]
Stores == {Namespace[i] : i \in LocalIds}
NoneReleased == [x \in Resources \cup Stores |-> 0]

\* The constructor and _open of a manager with empty storage.
\* The connections of the manager's swarm and the flocks its create()
\* returns, as test/helpers/chaos.js sees them.
Conns == {"c1", "c2"}
ChaosFlocks == {"f1"}

\* A connection the swarm has not emitted, a flock create() has not
\* returned.
NoConn == [known |-> FALSE, patched |-> FALSE, delivered |-> FALSE,
           paused |-> FALSE, destroyed |-> FALSE, reads |-> 0, issued |-> 0,
           forwarded |-> <<>>]
NoChaosFlock == [known |-> FALSE, partitionEpoch |-> 0, joined |-> TRUE,
                 leaving |-> FALSE]

\* getChaos, then installChaos(t, manager): the chaos record is new and the
\* manager's swarm is patched and registered.
InitChaos ==
  /\ enabled = FALSE
  /\ enabledAt = -1
  /\ epoch = 0
  /\ now = 0
  /\ timers = <<>>
  /\ conns = [c \in Conns |-> NoConn]
  /\ chaosFlocks = [f \in ChaosFlocks |-> NoChaosFlock]

InitManager ==
  /\ all = [i \in LocalIds |-> NoFlock]
  /\ discoveryKeys = {}
  /\ managerInfo = NoIndex
  /\ pairers = {}
  /\ nextId = 0
  /\ lastCall = NoCall
  /\ isSaving = FALSE
  /\ closingDown = FALSE
  /\ ops = {}
  /\ mgr = "open"
  /\ muser = EmptyObject
  /\ shared = [i \in LocalIds |-> NoShare]
  /\ left = {}
  /\ closeCalls = 0
  /\ exits = [i \in LocalIds |-> 0]
  /\ released = NoneReleased
  /\ leaving = [i \in LocalIds |-> 0]
  /\ InitChaos

\* z32.decode followed by BlindPairing.decodeInvite(..).discoveryKey and
\* z32.encode: the discovery key an invite encodes; both decoders throw on
\* input that is not theirs.
Throws == "throws"
decodeInvite(token) ==
  IF token = "invite-g1" THEN "dk-g1"
  ELSE IF token = "invite-g2" THEN "dk-g2"
  ELSE Throws

\* A faulty getDiscoveryKey without the catch: a token that does not decode
\* is reported like an invite of a group not joined yet.
getDiscoveryKeyNoCatch(token) ==
  IF decodeInvite(token) = Throws THEN "false"
  ELSE IF decodeInvite(token) \in discoveryKeys THEN decodeInvite(token)
  ELSE "false"

\* FlockManager.getDiscoveryKey: 'invalid' when decoding throws, else
\* discoveryKeys.has(dk) && dk.
getDiscoveryKey(token) ==
  IF decodeInvite(token) = Throws THEN "invalid"
  ELSE IF decodeInvite(token) \in discoveryKeys THEN decodeInvite(token)
  ELSE "false"

\* A flock as the registry holds it.  Flock defines no discoveryKey
\* property, so what create() reads as flock.discoveryKey is undefined; dk
\* is the discovery key of the flock's autobee.
FlockWith(dk, custom, isNew) ==
  [dk |-> dk, discoveryKey |-> Undefined, custom |-> custom, isNew |-> isNew]
FlockOf(dk) == FlockWith(dk, EmptyObject, TRUE)

\* The tail of create(): register under localId, remember the discovery
\* key.
Register(id, flock) ==
  /\ all' = [all EXCEPT ![id] = flock]
  /\ discoveryKeys' = discoveryKeys \cup {flock.discoveryKey}

\* FlockManager.save(flock) up to its first await: nothing while closing
\* down; else isSaving is raised and managerBee.get is awaited.
save(id, custom) ==
  IF closingDown
  THEN UNCHANGED <<isSaving, ops>>
  ELSE /\ isSaving' = TRUE
       /\ ops' = ops \cup {[kind |-> "save", id |-> id, custom |-> custom,
                            phase |-> "get", snap |-> NoIndex]}

\* create() without invite: a new flock with a discovery key of its own.
\* 'allDataThere' is emitted by the flock's _open while create() awaits
\* flock.ready(): the handler is in place and save(flock) starts.  The
\* flock, being new, announces the manager's profile.
OwnDk == [i \in LocalIds |-> IF i = 1 THEN "dk-own1"
                             ELSE IF i = 2 THEN "dk-own2" ELSE "dk-own"]

CreateNew(custom) ==
  /\ mgr = "open"
  /\ nextId < MaxFlocks
  /\ nextId' = nextId + 1
  /\ Register(nextId + 1, FlockWith(OwnDk[nextId + 1], custom, TRUE))
  /\ save(nextId + 1, custom)
  /\ shared' = [shared EXCEPT ![nextId + 1] =
                  [joined |-> FALSE, mine |-> muser, theirs |-> Null]]
  /\ lastCall' = [token |-> NoInvite, ret |-> "flock"]
  /\ UNCHANGED <<managerInfo, pairers, closingDown, mgr, muser, left>>
  /\ UNCHANGED closeVars
  /\ UNCHANGED flockVars
  /\ UNCHANGED chaosVars

\* FlockManager.find(discoveryKey): reads this.all[localId].metadata, which
\* no Flock has: it throws as soon as there is a registered flock.
find(dk) == IF \E i \in LocalIds : all[i] # NoFlock THEN Throws ELSE Undefined

\* create(invite) up to `await pair.finished()`.
CreateJoin(token) ==
  /\ mgr = "open"
  /\ token # NoInvite
  /\ LET discoveryKey == getDiscoveryKey(token) IN
     IF discoveryKey = "invalid"
     THEN /\ lastCall' = [token |-> token, ret |-> "false"]
          /\ UNCHANGED <<all, discoveryKeys, managerInfo, pairers, nextId>>
     ELSE IF discoveryKey # "false"
     THEN /\ lastCall' = [token |-> token, ret |-> find(discoveryKey)]
          /\ UNCHANGED <<all, discoveryKeys, managerInfo, pairers, nextId>>
     ELSE /\ nextId < MaxFlocks
          /\ nextId' = nextId + 1
          /\ pairers' = pairers \cup {[localId |-> nextId + 1, token |-> token]}
          /\ lastCall' = [token |-> token, ret |-> "pairing"]
          /\ UNCHANGED <<all, discoveryKeys, managerInfo>>
  /\ UNCHANGED idxVars
  /\ UNCHANGED closeVars
  /\ UNCHANGED flockVars
  /\ UNCHANGED chaosVars

\* pair.finished() resolves with the joined flock: the rest of create().
\* finished() resolves after flock.ready(), that is after the flock's _open
\* has emitted 'allDataThere': the handler create() installs now is never
\* called, and save(flock) does not run.
PairFinished(p) ==
  /\ mgr = "open"
  /\ p \in pairers
  /\ pairers' = pairers \ {p}
  /\ Register(p.localId, FlockOf(decodeInvite(p.token)))
  /\ shared' = [shared EXCEPT ![p.localId] =
                  [joined |-> TRUE, mine |-> muser, theirs |-> Null]]
  /\ UNCHANGED <<managerInfo, nextId, lastCall>>
  /\ UNCHANGED <<isSaving, closingDown, ops, mgr, muser, left>>
  /\ UNCHANGED closeVars
  /\ UNCHANGED flockVars
  /\ UNCHANGED chaosVars

\* close() of a FlockPairer that FlockManager.pair made from
\* getOptions(localId), before the member has admitted it: _close destroys
\* this.swarm, which is the manager's swarm, closes its store, the
\* namespace of localId, and rejects finished(): create() throws.
PairerClosed(p) ==
  /\ mgr = "open"
  /\ p \in pairers
  /\ pairers' = pairers \ {p}
  /\ released' = [released EXCEPT !["swarm"] = @ + 1,
                                  ![Namespace[p.localId]] = @ + 1]
  /\ lastCall' = [token |-> p.token, ret |-> Throws]
  /\ UNCHANGED <<all, discoveryKeys, managerInfo, nextId>>
  /\ UNCHANGED <<isSaving, closingDown, ops, mgr, muser, shared, left>>
  /\ UNCHANGED <<closeCalls, exits, leaving>>
  /\ UNCHANGED flockVars
  /\ UNCHANGED chaosVars

\* The flock of a pairer fails to open: _whenReady rejects finished() with
\* that error and releases nothing; create() throws.
PairRejected(p) ==
  /\ mgr = "open"
  /\ p \in pairers
  /\ pairers' = pairers \ {p}
  /\ lastCall' = [token |-> p.token, ret |-> Throws]
  /\ UNCHANGED <<all, discoveryKeys, managerInfo, nextId>>
  /\ UNCHANGED idxVars
  /\ UNCHANGED flockVars
  /\ UNCHANGED chaosVars

\* flock.leave(): 'leave' starts _remove(flock), which awaits
\* managerBee.get; 'closed' deletes the flock from all.
FlockLeft(id) ==
  /\ mgr = "open"
  /\ all[id] # NoFlock
  /\ all' = [all EXCEPT ![id] = NoFlock]
  /\ ops' = ops \cup {[kind |-> "remove", id |-> id, custom |-> Null,
                       phase |-> "get", snap |-> NoIndex]}
  /\ shared' = [shared EXCEPT ![id] = NoShare]
  /\ left' = left \cup {id}
  /\ UNCHANGED <<discoveryKeys, managerInfo, pairers, nextId, lastCall>>
  /\ UNCHANGED <<isSaving, closingDown, mgr, muser>>
  /\ UNCHANGED closeVars
  /\ UNCHANGED flockVars
  /\ UNCHANGED chaosVars

\* The _exit runs followed on one flock.
MaxLeaves == 2

\* flock.leave() up to its `await this._exit()`: the guard, the append of
\* removeWriter and the confirmation wait.  Nothing keeps a second call, or
\* close() of the manager, from running meanwhile.
LeaveCalled(id) ==
  /\ all[id] # NoFlock
  /\ leaving[id] + exits[id] < MaxLeaves
  /\ leaving' = [leaving EXCEPT ![id] = @ + 1]
  /\ UNCHANGED <<all, discoveryKeys, managerInfo, pairers, nextId, lastCall>>
  /\ UNCHANGED <<isSaving, closingDown, ops, mgr, muser, shared, left>>
  /\ UNCHANGED <<closeCalls, exits, released>>
  /\ UNCHANGED flockVars
  /\ UNCHANGED chaosVars

\* The rest of leave(): _exit runs and emits 'closed', whose handler of
\* create() deletes the flock from all unless closingDown is raised; then
\* 'leave' starts _remove(flock).
LeaveExited(id) ==
  /\ leaving[id] > 0
  /\ leaving' = [leaving EXCEPT ![id] = @ - 1]
  /\ exits' = [exits EXCEPT ![id] = @ + 1]
  /\ all' = IF closingDown THEN all ELSE [all EXCEPT ![id] = NoFlock]
  /\ ops' = ops \cup {[kind |-> "remove", id |-> id, custom |-> Null,
                       phase |-> "get", snap |-> NoIndex]}
  /\ shared' = [shared EXCEPT ![id] = NoShare]
  /\ left' = left \cup {id}
  /\ UNCHANGED <<discoveryKeys, managerInfo, pairers, nextId, lastCall>>
  /\ UNCHANGED <<isSaving, closingDown, mgr, muser>>
  /\ UNCHANGED <<closeCalls, released>>
  /\ UNCHANGED flockVars
  /\ UNCHANGED chaosVars

\* save / _remove: `await this.managerBee.get('managerInfo')` returns; the
\* call holds the index it read.  On a closed store the get throws, and the
\* finally of save lowers isSaving.
IndexGet(op) ==
  /\ op \in ops
  /\ op.phase = "get"
  /\ IF mgr = "closed"
     THEN /\ ops' = ops \ {op}
          /\ isSaving' = IF op.kind = "save" THEN FALSE ELSE isSaving
     ELSE /\ ops' = (ops \ {op}) \cup
                      {[op EXCEPT !.phase = "put", !.snap = managerInfo]}
          /\ UNCHANGED isSaving
  /\ UNCHANGED <<all, discoveryKeys, managerInfo, pairers, nextId, lastCall>>
  /\ UNCHANGED <<closingDown, mgr, muser, shared, left>>
  /\ UNCHANGED closeVars
  /\ UNCHANGED flockVars
  /\ UNCHANGED chaosVars

\* save: the map that was read, with the flock's entry set, is put and
\* isSaving is lowered.  _remove: the map that was read, without the
\* flock's entry, is put if it had that entry.  On a closed store the put
\* throws and writes nothing.
IndexPut(op) ==
  /\ op \in ops
  /\ op.phase = "put"
  /\ ops' = ops \ {op}
  /\ managerInfo' =
       IF mgr = "closed" THEN managerInfo
       ELSE IF op.kind = "save"
       THEN [op.snap EXCEPT ![op.id] = op.custom]
       ELSE IF op.snap[op.id] # Null THEN [op.snap EXCEPT ![op.id] = Null]
       ELSE managerInfo
  /\ isSaving' = IF op.kind = "save" THEN FALSE ELSE isSaving
  /\ UNCHANGED <<all, discoveryKeys, pairers, nextId, lastCall>>
  /\ UNCHANGED <<closingDown, mgr, muser, shared, left>>
  /\ UNCHANGED closeVars
  /\ UNCHANGED flockVars
  /\ UNCHANGED chaosVars

\* A faulty setUserData that hands the profile to the first flock only.
setUserDataFirstOnly(data) ==
  /\ mgr = "open"
  /\ muser' = data
  /\ shared' = [i \in LocalIds |->
                  IF all[i] # NoFlock /\ i = 1
                  THEN [shared[i] EXCEPT !.mine = data]
                  ELSE shared[i]]
  /\ UNCHANGED <<all, discoveryKeys, managerInfo, pairers, nextId, lastCall>>
  /\ UNCHANGED <<isSaving, closingDown, ops, mgr, left>>
  /\ UNCHANGED closeVars
  /\ UNCHANGED flockVars
  /\ UNCHANGED chaosVars

\* FlockManager.setUserData(userData): the profile is kept and stored, and
\* every flock of this.all puts it under flockInfo/members/<myId>.
setUserData(data) ==
  /\ mgr = "open"
  /\ muser' = data
  /\ shared' = [i \in LocalIds |->
                  IF all[i] # NoFlock THEN [shared[i] EXCEPT !.mine = data]
                  ELSE shared[i]]
  /\ UNCHANGED <<all, discoveryKeys, managerInfo, pairers, nextId, lastCall>>
  /\ UNCHANGED <<isSaving, closingDown, ops, mgr, left>>
  /\ UNCHANGED closeVars
  /\ UNCHANGED flockVars
  /\ UNCHANGED chaosVars

\* Another manager joins group id through its invite; both replicas come
\* to observe two writers.
PeerJoined(id) ==
  /\ all[id] # NoFlock
  /\ ~shared[id].joined
  /\ shared' = [shared EXCEPT ![id].joined = TRUE]
  /\ UNCHANGED <<all, discoveryKeys, managerInfo, pairers, nextId, lastCall>>
  /\ UNCHANGED <<isSaving, closingDown, ops, mgr, muser, left>>
  /\ UNCHANGED closeVars
  /\ UNCHANGED flockVars
  /\ UNCHANGED chaosVars

\* corestore.replicate on a connection of group id: the other member
\* merges this manager's log and applies its profile put.
Replicate(id) ==
  /\ all[id] # NoFlock
  /\ shared[id].joined
  /\ shared[id].theirs # shared[id].mine
  /\ shared' = [shared EXCEPT ![id].theirs = shared[id].mine]
  /\ UNCHANGED <<all, discoveryKeys, managerInfo, pairers, nextId, lastCall>>
  /\ UNCHANGED <<isSaving, closingDown, ops, mgr, muser, left>>
  /\ UNCHANGED closeVars
  /\ UNCHANGED flockVars
  /\ UNCHANGED chaosVars

\* FlockManager._close up to its first await: closingDown is raised; with
\* isSaving raised the polling wait starts, else the flocks' _exit are
\* started at once.
CloseStart ==
  /\ mgr = "open"
  /\ closingDown' = TRUE
  /\ mgr' = IF isSaving THEN "waiting" ELSE "teardown"
  /\ UNCHANGED <<all, discoveryKeys, managerInfo, pairers, nextId, lastCall>>
  /\ UNCHANGED <<isSaving, ops, muser, shared, left>>
  /\ closeCalls' = 1
  /\ UNCHANGED <<exits, released, leaving>>
  /\ UNCHANGED flockVars
  /\ UNCHANGED chaosVars

\* `const attempts = 0` of the wait in _close: the interval never changes
\* it.
attempts == 0

\* The interval of _close finds isSaving lowered (or attempts above 300):
\* the wait ends and the flocks' _exit are started.
ClosePoll ==
  /\ mgr = "waiting"
  /\ ~isSaving \/ attempts > 300
  /\ mgr' = "teardown"
  /\ UNCHANGED <<all, discoveryKeys, managerInfo, pairers, nextId, lastCall>>
  /\ UNCHANGED <<isSaving, closingDown, ops, muser, shared, left>>
  /\ UNCHANGED closeVars
  /\ UNCHANGED flockVars
  /\ UNCHANGED chaosVars

\* The rest of _close: the flocks have exited, all is emptied, localBee,
\* managerBee, pairing, swarm and corestore are closed, closingDown is
\* lowered.
CloseFinish ==
  /\ mgr = "teardown"
  /\ all' = [i \in LocalIds |-> NoFlock]
  /\ mgr' = "closed"
  /\ closingDown' = FALSE
  /\ UNCHANGED <<discoveryKeys, managerInfo, pairers, nextId, lastCall>>
  /\ UNCHANGED <<isSaving, ops, muser, shared, left>>
  /\ exits' = [i \in LocalIds |-> IF all[i] # NoFlock THEN exits[i] + 1
                                   ELSE exits[i]]
  /\ released' = [x \in DOMAIN released |->
                    IF x \in Resources THEN released[x] + 1 ELSE released[x]]
  /\ UNCHANGED <<closeCalls, leaving>>
  /\ UNCHANGED flockVars
  /\ UNCHANGED chaosVars

\* A faulty close() that runs _close again on every call.
CloseAgainReruns ==
  /\ mgr \in {"teardown", "closed"}
  /\ closeCalls < MaxCloses
  /\ closeCalls' = closeCalls + 1
  /\ exits' = [i \in LocalIds |-> IF all[i] # NoFlock THEN exits[i] + 1
                                   ELSE exits[i]]
  /\ released' = [x \in DOMAIN released |->
                    IF x \in Resources THEN released[x] + 1 ELSE released[x]]
  /\ UNCHANGED <<all, discoveryKeys, managerInfo, pairers, nextId, lastCall>>
  /\ UNCHANGED <<isSaving, closingDown, ops, mgr, muser, shared, left>>
  /\ UNCHANGED leaving
  /\ UNCHANGED flockVars
  /\ UNCHANGED chaosVars

\* A further close() or cleanup() call on a manager that is closing or
\* closed: close() of ReadyResource returns the promise of the first call
\* and _close does not run again.
CloseAgain ==
  /\ mgr # "open"
  /\ closeCalls < MaxCloses
  /\ closeCalls' = closeCalls + 1
  /\ UNCHANGED <<exits, released, leaving>>
  /\ UNCHANGED <<all, discoveryKeys, managerInfo, pairers, nextId, lastCall>>
  /\ UNCHANGED <<isSaving, closingDown, ops, mgr, muser, shared, left>>
  /\ UNCHANGED flockVars
  /\ UNCHANGED chaosVars

\* A faulty _open that reopens the stored groups as new ones: each is
\* saved again.
ManagerOpenAsNew ==
  /\ mgr = "closed"
  /\ mgr' = "open"
  /\ all' = [i \in LocalIds |->
               IF managerInfo[i] # Null
               THEN FlockWith(OwnDk[i], managerInfo[i], TRUE)
               ELSE NoFlock]
  /\ discoveryKeys' = {Undefined : i \in {j \in LocalIds : managerInfo[j] # Null}}
  /\ pairers' = {}
  /\ lastCall' = NoCall
  /\ isSaving' = (\E i \in LocalIds : managerInfo[i] # Null)
  /\ closingDown' = FALSE
  /\ ops' = {[kind |-> "save", id |-> i, custom |-> managerInfo[i],
              phase |-> "get", snap |-> NoIndex] :
                i \in {j \in LocalIds : managerInfo[j] # Null}}
  /\ UNCHANGED <<managerInfo, nextId, muser, shared, left>>
  /\ closeCalls' = 0
  /\ exits' = [i \in LocalIds |-> 0]
  /\ released' = NoneReleased
  /\ leaving' = [i \in LocalIds |-> 0]
  /\ UNCHANGED flockVars
  /\ UNCHANGED chaosVars

\* new FlockManager(storageDir) on the storage a closed manager left, and
\* its _open: every entry of managerInfo is reopened by
\* create(undefined, {custom, localId, userData}, false).
ManagerOpen ==
  /\ mgr = "closed"
  /\ mgr' = "open"
  /\ all' = [i \in LocalIds |->
               IF managerInfo[i] # Null
               THEN FlockWith(OwnDk[i], managerInfo[i], FALSE)
               ELSE NoFlock]
  /\ discoveryKeys' = {Undefined : i \in {j \in LocalIds : managerInfo[j] # Null}}
  /\ pairers' = {}
  /\ lastCall' = NoCall
  /\ isSaving' = FALSE
  /\ closingDown' = FALSE
  /\ ops' = {}
  /\ UNCHANGED <<managerInfo, nextId, muser, shared, left>>
  /\ closeCalls' = 0
  /\ exits' = [i \in LocalIds |-> 0]
  /\ released' = NoneReleased
  /\ leaving' = [i \in LocalIds |-> 0]
  /\ UNCHANGED flockVars
  /\ UNCHANGED chaosVars

----------------------------------------------------------------------------
(* The fault harness: test/helpers/chaos.js                                *)

MaxTime == 3            \* ticks of the clock
MaxEpochs == 2          \* enableChaos calls that enable
MaxWrites == 2          \* conn.write calls on one connection
MaxReads == 1           \* 'data' events on one connection
GraceTicks == 1         \* chaos.opts.graceMs, in ticks
MaxTimers == 10         \* more than the timers ever pending at once

\* randRange(rng, min, max) for the delay options: what the seeded rng may
\* draw, in ticks.
Delays == 0..1
\* Delays whose lower option is above 0 (connection, drop, partition).
LongDelays == 1..1

\* setChaosTimeout(chaos, fn, ms): the timer joins chaos.timers.
setChaosTimeout(ts, kind, target, chunk, ms) ==
  Append(ts, [kind |-> kind, target |-> target, chunk |-> chunk,
              due |-> now + ms])

\* shouldDrop(chaos)
shouldDrop == enabled /\ (enabledAt < 0 \/ GraceTicks <= 0
                           \/ now - enabledAt >= GraceTicks)

\* graceDelay(chaos), evaluated at time t after enabling at time at.
graceDelay(at, t) ==
  IF at < 0 \/ GraceTicks <= 0 THEN 0
  ELSE IF t - at >= GraceTicks THEN 0 ELSE GraceTicks - (t - at)

\* The timers setTimeout runs next: those due, the earliest first and, of
\* equal due time, the one set first.
Fires(i) ==
  /\ i \in 1..Len(timers)
  /\ timers[i].due <= now
  /\ \A j \in 1..Len(timers) :
       j # i => \/ timers[j].due > timers[i].due
                \/ (timers[j].due = timers[i].due /\ j > i)

Without(ts, i) == SubSeq(ts, 1, i - 1) \o SubSeq(ts, i + 1, Len(ts))

\* Time passes; setTimeout callbacks that are due run first.
Tick ==
  /\ now < MaxTime
  /\ \A i \in 1..Len(timers) : timers[i].due > now
  /\ now' = now + 1
  /\ UNCHANGED <<enabled, enabledAt, epoch, timers, conns, chaosFlocks>>
  /\ UNCHANGED managerVars
  /\ UNCHANGED flockVars

\* The patched swarm.emit('connection', conn).  Disabled: the original emit
\* at once.  Enabled: applyConnectionChaos patches the connection (and,
\* past the grace period, may schedule its destroy), and the event is
\* delivered after the connection delay.
SwarmConnection(c, delay, drop) ==
  /\ ~conns[c].known
  /\ IF ~enabled
     THEN /\ conns' = [conns EXCEPT ![c].known = TRUE, ![c].delivered = TRUE]
          /\ UNCHANGED timers
     ELSE /\ conns' = [conns EXCEPT ![c].known = TRUE, ![c].patched = TRUE]
          /\ LET dropped == IF shouldDrop /\ drop > 0
                            THEN setChaosTimeout(timers, "destroy", c, 0, drop)
                            ELSE timers
             IN timers' = setChaosTimeout(dropped, "emit", c, 0, delay)
  /\ UNCHANGED <<enabled, enabledAt, epoch, now, chaosFlocks>>
  /\ UNCHANGED managerVars
  /\ UNCHANGED flockVars

\* schedulePartition(flock, chaos) at time t in epoch e with the harness
\* enabled: once per epoch, and only when the rng falls under
\* partitionRate (start > 0), the partition timer is set.
schedulePartition(ts, fl, f, e, at, start) ==
  IF fl[f].partitionEpoch = e THEN [timers |-> ts, flocks |-> fl]
  ELSE [timers |-> IF start > 0
                   THEN Append(ts, [kind |-> "partition", target |-> f,
                                    chunk |-> 0,
                                    due |-> now + start + graceDelay(at, now)])
                   ELSE ts,
        flocks |-> [fl EXCEPT ![f].partitionEpoch = e]]

\* The wrapped manager.create returns flock f: applyChaosToFlock registers
\* it and, with the harness enabled, schedules its partition.
FlockCreated(f, start) ==
  /\ ~chaosFlocks[f].known
  /\ LET known == [chaosFlocks EXCEPT ![f].known = TRUE]
         s == schedulePartition(timers, known, f, epoch, enabledAt, start)
     IN IF enabled
        THEN /\ timers' = s.timers
             /\ chaosFlocks' = s.flocks
        ELSE /\ chaosFlocks' = known
             /\ UNCHANGED timers
  /\ UNCHANGED <<enabled, enabledAt, epoch, now, conns>>
  /\ UNCHANGED managerVars
  /\ UNCHANGED flockVars

\* enableChaos(t): the harness is enabled, every connection of the
\* registered swarm is patched (none is dropped: the grace period has just
\* begun), every registered flock gets its partition scheduled, and the
\* teardown is registered.
enableChaos(start) ==
  /\ ~enabled
  /\ epoch < MaxEpochs
  /\ enabled' = TRUE
  /\ enabledAt' = now
  /\ epoch' = epoch + 1
  /\ conns' = [c \in Conns |->
                 IF conns[c].known THEN [conns[c] EXCEPT !.patched = TRUE]
                 ELSE conns[c]]
  /\ LET f == CHOOSE g \in ChaosFlocks : TRUE
         s == schedulePartition(timers, chaosFlocks, f, epoch + 1, now, start)
     IN IF chaosFlocks[f].known
        THEN /\ timers' = s.timers
             /\ chaosFlocks' = s.flocks
        ELSE UNCHANGED <<timers, chaosFlocks>>
  /\ UNCHANGED now
  /\ UNCHANGED managerVars
  /\ UNCHANGED flockVars

\* The teardown registerTeardown gave the test: every pending timer is
\* cleared and the harness is disabled.
Teardown ==
  /\ enabled
  /\ timers' = <<>>
  /\ enabled' = FALSE
  /\ enabledAt' = -1
  /\ UNCHANGED <<epoch, now, conns, chaosFlocks>>
  /\ UNCHANGED managerVars
  /\ UNCHANGED flockVars

\* 'data' on a patched connection (onData): with the harness enabled and a
\* delay above 0 the connection is paused and its resume is scheduled.
ConnData(c, delay) ==
  /\ conns[c].patched
  /\ ~conns[c].destroyed
  /\ conns[c].reads < MaxReads
  /\ IF enabled /\ delay > 0
     THEN /\ conns' = [conns EXCEPT ![c].reads = @ + 1, ![c].paused = TRUE]
          /\ timers' = setChaosTimeout(timers, "resume", c, 0, delay)
     ELSE /\ conns' = [conns EXCEPT ![c].reads = @ + 1]
          /\ UNCHANGED timers
  /\ UNCHANGED <<enabled, enabledAt, epoch, now, chaosFlocks>>
  /\ UNCHANGED managerVars
  /\ UNCHANGED flockVars

\* A faulty write wrapper that delays whether or not the harness is
\* enabled.
ConnWriteAlwaysDelays(c, delay) ==
  /\ conns[c].known
  /\ ~conns[c].destroyed
  /\ conns[c].issued < MaxWrites
  /\ LET chunk == conns[c].issued + 1 IN
     IF ~conns[c].patched \/ delay <= 0
     THEN /\ conns' = [conns EXCEPT ![c].issued = chunk,
                                    ![c].forwarded = Append(@, chunk)]
          /\ UNCHANGED timers
     ELSE /\ conns' = [conns EXCEPT ![c].issued = chunk]
          /\ timers' = setChaosTimeout(timers, "write", c, chunk, delay)
  /\ UNCHANGED <<enabled, enabledAt, epoch, now, chaosFlocks>>
  /\ UNCHANGED managerVars
  /\ UNCHANGED flockVars

\* conn.write(chunk): the original write on a connection that is not
\* patched, with the harness disabled, or with a delay of 0; else the
\* original write is scheduled after the delay and true is returned.
ConnWrite(c, delay) ==
  /\ conns[c].known
  /\ ~conns[c].destroyed
  /\ conns[c].issued < MaxWrites
  /\ LET chunk == conns[c].issued + 1 IN
     IF ~conns[c].patched \/ ~enabled \/ delay <= 0
     THEN /\ conns' = [conns EXCEPT ![c].issued = chunk,
                                    ![c].forwarded = Append(@, chunk)]
          /\ UNCHANGED timers
     ELSE /\ conns' = [conns EXCEPT ![c].issued = chunk]
          /\ timers' = setChaosTimeout(timers, "write", c, chunk, delay)
  /\ UNCHANGED <<enabled, enabledAt, epoch, now, chaosFlocks>>
  /\ UNCHANGED managerVars
  /\ UNCHANGED flockVars

\* A timer of setChaosTimeout fires: it leaves chaos.timers and its
\* callback runs.  The delayed emit and the resume run as they are; the
\* delayed write, the destroy, the partition and the rejoin return when the
\* harness is disabled.  The partition callback leaves the topic and is
\* then at its await.
TimerFire(i) ==
  /\ Fires(i)
  /\ LET t == timers[i] IN
     /\ timers' = Without(timers, i)
     /\ conns' =
          IF t.kind = "emit"
          THEN [conns EXCEPT ![t.target].delivered = TRUE]
          ELSE IF t.kind = "resume"
          THEN [conns EXCEPT ![t.target].paused = FALSE]
          ELSE IF t.kind = "write" /\ enabled
          THEN [conns EXCEPT ![t.target].forwarded = Append(@, t.chunk)]
          ELSE IF t.kind = "destroy" /\ enabled
          THEN [conns EXCEPT ![t.target].destroyed = TRUE]
          ELSE conns
     /\ chaosFlocks' =
          IF t.kind = "partition" /\ enabled
          THEN [chaosFlocks EXCEPT ![t.target].joined = FALSE,
                                   ![t.target].leaving = TRUE]
          ELSE IF t.kind = "rejoin" /\ enabled
          THEN [chaosFlocks EXCEPT ![t.target].joined = TRUE]
          ELSE chaosFlocks
  /\ UNCHANGED <<enabled, enabledAt, epoch, now>>
  /\ UNCHANGED managerVars
  /\ UNCHANGED flockVars

\* The partition callback after `await flock.swarm.leave(..)`: the rejoin
\* is scheduled after the down time, whatever chaos.enabled is by now.
PartitionLeft(f, down) ==
  /\ chaosFlocks[f].leaving
  /\ chaosFlocks' = [chaosFlocks EXCEPT ![f].leaving = FALSE]
  /\ timers' = setChaosTimeout(timers, "rejoin", f, 0, down)
  /\ UNCHANGED <<enabled, enabledAt, epoch, now, conns>>
  /\ UNCHANGED managerVars
  /\ UNCHANGED flockVars

\* The connections that receive data and those written to.
Readers == {"c2"}
Writers == {"c1"}

\* A manager under the harness: connections, reads and writes, flocks,
\* enabling and teardown.
ChaosNext ==
  \/ Tick
  \/ \E c \in Conns, delay \in LongDelays, drop \in Delays :
       SwarmConnection(c, delay, drop)
  \/ \E f \in ChaosFlocks, start \in Delays : FlockCreated(f, start)
  \/ \E start \in Delays : enableChaos(start)
  \/ Teardown
  \/ \E c \in Readers, delay \in Delays : ConnData(c, delay)
  \/ \E c \in Writers, delay \in Delays : ConnWrite(c, delay)
  \/ \E i \in 1..MaxTimers : TimerFire(i)
  \/ \E f \in ChaosFlocks, down \in LongDelays : PartitionLeft(f, down)

\* create() with the invites of tokens, leave, and the index operations
\* they start.
CreateNext(tokens, customs) ==
  \/ \E custom \in customs : CreateNew(custom)
  \/ \E token \in tokens : CreateJoin(token)
  \/ \E p \in pairers : PairFinished(p)
  \/ \E id \in LocalIds : FlockLeft(id)
  \/ \E op \in ops : IndexGet(op)
  \/ \E op \in ops : IndexPut(op)

RegNext == CreateNext(Tokens, {EmptyObject})

\* close() of the manager and a new manager on its storage.
CloseNext ==
  \/ CloseStart
  \/ ClosePoll
  \/ CloseFinish
  \/ ManagerOpen

\* close() while saves of new flocks are in flight.
CloseWaitNext ==
  \/ CreateNew(EmptyObject)
  \/ \E op \in ops : IndexGet(op)
  \/ \E op \in ops : IndexPut(op)
  \/ CloseStart
  \/ ClosePoll
  \/ CloseFinish

\* Several close() calls, one after another or overlapping, and a new
\* manager on the storage.
CloseCallsNext ==
  \/ CloseWaitNext
  \/ CloseAgain
  \/ ManagerOpen

\* leave() calls on the first flocks of a registry while it is closed.
LeaveIds == {1, 2}

LifecycleNext ==
  \/ CloseWaitNext
  \/ \E id \in LeaveIds : LeaveCalled(id)
  \/ \E id \in LeaveIds : LeaveExited(id)

\* New groups of one registry, some of which leave: the save and _remove
\* calls they start run concurrently.
SavesNext ==
  \/ CreateNew(EmptyObject)
  \/ \E id \in LocalIds : FlockLeft(id)
  \/ \E op \in ops : IndexGet(op)
  \/ \E op \in ops : IndexPut(op)

\* Groups of one registry while pairings fail and flocks leave.
IsolationNext ==
  \/ CreateNext({"invite-g1"}, {EmptyObject})
  \/ \E p \in pairers : PairerClosed(p)
  \/ \E p \in pairers : PairRejected(p)

\* The invites a manager with a restart joins with.
OneInvite == {"invite-g1"}

\* The registry while the manager's profile is set and replicated.
UserDataNext ==
  \/ CreateNew(EmptyObject)
  \/ \E op \in ops : IndexGet(op)
  \/ \E op \in ops : IndexPut(op)
  \/ \E id \in LocalIds : PeerJoined(id)
  \/ \E data \in UserDatas : setUserData(data)
  \/ \E id \in LocalIds : Replicate(id)

----------------
(* State after the founder's FlockManager.create() has returned            *)

\* No Flock.set call yet; no partition yet.
NoSet == [by |-> Null, key |-> Null,
          data |-> [type |-> "null", text |-> Null, pairs |-> <<>>],
          enc |-> FALSE, ok |-> FALSE]
\* The handles of a FlockPairer: none before it is constructed; swarm and
\* store held from the constructor on and passed to the flock in onadd,
\* which also closes the candidate; closes counts candidate.close() calls.
NoPairer == [swarm |-> "none", store |-> "none", candidate |-> "none",
             closes |-> 0, closed |-> FALSE]
NewPairer == [swarm |-> "held", store |-> "held", candidate |-> "open",
              closes |-> 0, closed |-> FALSE]
PassedPairer == [swarm |-> "passed", store |-> "passed",
                 candidate |-> "closed", closes |-> 1, closed |-> FALSE]
NoPartition == [n |-> 0, off |-> ZeroClock, missed |-> {}]

\* this._info of a flock whose autobee has emitted no 'update' yet; -1: no
\* such _updateInfo call is running.
NoInfo == [at |-> 0, queued |-> -1, direct |-> -1, emitted |-> 0]

InitApi ==
  /\ userData = [r \in Peers |-> Profile[r]]
  /\ lastSet = NoSet
  /\ rejected = [r \in Peers |-> NoError]
  /\ partition = [r \in Peers |-> NoPartition]
  /\ infoUpdate = [r \in Peers |-> 0]
  /\ opening = [r \in Peers |-> "booted"]
  /\ updates = [r \in Peers |-> 0]
  /\ allDataThere = [r \in Peers |-> IF st[r] = "open" THEN 1 ELSE 0]
  /\ info = [r \in Peers |-> NoInfo]
  /\ pairer = [r \in Peers |-> IF presented[r] # Undefined THEN PassedPairer
                                ELSE NoPairer]

NoRes == [member |-> FALSE, topic |-> FALSE, bee |-> FALSE]
AllRes == [member |-> TRUE, topic |-> TRUE, bee |-> TRUE]

\* The founder's _open stored the invite record and, being writable from the
\* start, announced its profile.
FounderLog ==
  <<Node(Founder, "put", InviteKey, GroupInviteId, ZeroClock),
    Node(Founder, "put", ProfileKey[Founder], Profile[Founder],
         [ZeroClock EXCEPT ![Founder] = 1])>>
FounderSeen == [ZeroClock EXCEPT ![Founder] = 2]

Init ==
  /\ log = [w \in Peers |-> IF w = Founder THEN FounderLog ELSE <<>>]
  /\ seen = [r \in Peers |-> IF r = Founder THEN FounderSeen ELSE ZeroClock]
  /\ view = [r \in Peers |->
               IF r = Founder
               THEN [EmptyView EXCEPT ![InviteKey] = GroupInviteId,
                                      ![ProfileKey[Founder]] = Profile[Founder]]
               ELSE EmptyView]
  /\ wr = [r \in Peers |-> {Founder}]
  /\ st = [r \in Peers |-> IF r = Founder THEN "open" ELSE "idle"]
  /\ presented = [r \in Peers |-> Undefined]
  /\ reply = [m \in Peers |-> [c \in Peers |-> "none"]]
  /\ resolved = [r \in Peers |-> FALSE]
  /\ invite = [r \in Peers |-> IF r = Founder THEN GroupInviteId ELSE Undefined]
  /\ announce = [r \in Peers |-> FALSE]
  /\ res = [r \in Peers |-> IF r = Founder THEN AllRes ELSE NoRes]
  /\ lv = [r \in Peers |-> "none"]
  /\ elapsed = [r \in Peers |-> 0]
  /\ leaveErr = [r \in Peers |-> NoError]
  /\ puts = [r \in Peers |-> 0]
  /\ InitApi
  /\ InitManager

\* The state while the founder's create() awaits flock.ready(): the Flock
\* and its Autobee are constructed, _open has not run.
InitBoot ==
  /\ log = [w \in Peers |-> <<>>]
  /\ seen = [r \in Peers |-> ZeroClock]
  /\ view = [r \in Peers |-> EmptyView]
  /\ wr = [r \in Peers |-> {Founder}]
  /\ st = [r \in Peers |-> IF r = Founder THEN "opening" ELSE "idle"]
  /\ presented = [r \in Peers |-> Undefined]
  /\ reply = [m \in Peers |-> [c \in Peers |-> "none"]]
  /\ resolved = [r \in Peers |-> FALSE]
  /\ invite = [r \in Peers |-> Undefined]
  /\ announce = [r \in Peers |-> FALSE]
  /\ res = [r \in Peers |-> IF r = Founder THEN [NoRes EXCEPT !.bee = TRUE]
                             ELSE NoRes]
  /\ lv = [r \in Peers |-> "none"]
  /\ elapsed = [r \in Peers |-> 0]
  /\ leaveErr = [r \in Peers |-> NoError]
  /\ puts = [r \in Peers |-> 0]
  /\ InitApi
  /\ InitManager

\* The state once peer b has joined through the founder's invite and both
\* replicas hold everything: the founder appended addWriter for b, b became
\* writable and announced its profile.
Joiner == "b"
JoinedLog ==
  [w \in Peers |->
     IF w = Founder
     THEN Append(FounderLog, Node(Founder, "addWriter", Joiner, Null, FounderSeen))
     ELSE IF w = Joiner
     THEN <<Node(Joiner, "put", ProfileKey[Joiner], Profile[Joiner],
                 [ZeroClock EXCEPT ![Founder] = 3])>>
     ELSE <<>>]
JoinedSeen == [ZeroClock EXCEPT ![Founder] = 3, ![Joiner] = 1]

InitJoined ==
  /\ log = JoinedLog
  /\ seen = [r \in Peers |-> IF r \in {Founder, Joiner} THEN JoinedSeen ELSE ZeroClock]
  /\ view = [r \in Peers |->
               IF r \in {Founder, Joiner}
               THEN Materialize(JoinedLog, JoinedSeen).view ELSE EmptyView]
  /\ wr = [r \in Peers |->
             IF r \in {Founder, Joiner}
             THEN Materialize(JoinedLog, JoinedSeen).writers ELSE {Founder}]
  /\ st = [r \in Peers |-> IF r \in {Founder, Joiner} THEN "open" ELSE "idle"]
  /\ presented = [r \in Peers |-> IF r = Joiner THEN GroupInviteId ELSE Undefined]
  /\ reply = [m \in Peers |-> [c \in Peers |->
               IF m = Founder /\ c = Joiner THEN "confirmed" ELSE "none"]]
  /\ resolved = [r \in Peers |-> r = Joiner]
  /\ invite = [r \in Peers |->
                 IF r \in {Founder, Joiner} THEN GroupInviteId ELSE Undefined]
  /\ announce = [r \in Peers |-> FALSE]
  /\ res = [r \in Peers |-> IF r \in {Founder, Joiner} THEN AllRes ELSE NoRes]
  /\ lv = [r \in Peers |-> "none"]
  /\ elapsed = [r \in Peers |-> 0]
  /\ leaveErr = [r \in Peers |-> NoError]
  /\ puts = [r \in Peers |-> 0]
  /\ InitApi
  /\ InitManager

\* The state once b has joined and c has just been admitted: the founder
\* appended addWriter for c and confirmed, c opened its flock and has
\* replicated nothing yet; b has not yet seen c's admission.
Newcomer == "c"
AdmittedLog ==
  [JoinedLog EXCEPT ![Founder] =
     Append(@, Node(Founder, "addWriter", Newcomer, Null, JoinedSeen))]
AdmittedSeen ==
  [r \in Peers |->
     IF r = Founder THEN [JoinedSeen EXCEPT ![Founder] = 4]
     ELSE IF r = Joiner THEN JoinedSeen
     ELSE ZeroClock]

InitAdmitted ==
  /\ log = AdmittedLog
  /\ seen = AdmittedSeen
  /\ view = [r \in Peers |-> Materialize(AdmittedLog, AdmittedSeen[r]).view]
  /\ wr = [r \in Peers |-> Materialize(AdmittedLog, AdmittedSeen[r]).writers]
  /\ st = [r \in Peers |-> "open"]
  /\ presented = [r \in Peers |-> IF r = Founder THEN Undefined ELSE GroupInviteId]
  /\ reply = [m \in Peers |-> [c \in Peers |->
               IF m = Founder /\ c # Founder THEN "confirmed" ELSE "none"]]
  /\ resolved = [r \in Peers |-> r # Founder]
  /\ invite = [r \in Peers |-> IF r = Newcomer THEN Undefined ELSE GroupInviteId]
  /\ announce = [r \in Peers |-> r = Newcomer]
  /\ res = [r \in Peers |-> AllRes]
  /\ lv = [r \in Peers |-> "none"]
  /\ elapsed = [r \in Peers |-> 0]
  /\ leaveErr = [r \in Peers |-> NoError]
  /\ puts = [r \in Peers |-> 0]
  /\ InitApi
  /\ InitManager

----------------------------------------------------------------------------
(* Autobase: local append and replication                                  *)

writable(r) == r \in wr[r]

\* Flock._announceUserData: waitForWritable().then(() => _setUserData(..)).
\* The continuation runs as soon as the replica is writable: with ann set
\* (an announcement is waiting) and the local key in the applied quorum, the
\* profile is put under flockInfo/members/<myId> on top of lg/sn.
Announced(r, lg, sn, ann) ==
  IF ann /\ r \in Materialize(lg, sn).writers
  THEN [log |-> [lg EXCEPT ![r] =
                   Append(@, Node(r, "put", ProfileKey[r], userData[r], sn))],
        seen |-> [sn EXCEPT ![r] = @ + 1],
        ann |-> FALSE]
  ELSE [log |-> lg, seen |-> sn, ann |-> ann]

\* A faulty Update: the nodes that arrive are applied on top of the present
\* view in the order of their arrival; what was applied is never reordered.
UpdateInArrivalOrder(r, lg, sn, ann) ==
  LET a == Announced(r, lg, sn, ann)
      m == Materialize(a.log, a.seen)
      fresh == NodesAt(a.log, a.seen) \ NodesAt(log, seen[r])
  IN /\ log' = a.log
     /\ seen' = [seen EXCEPT ![r] = a.seen]
     /\ view' = [view EXCEPT ![r] = AutobeeApply(Linearize(fresh), view[r])]
     /\ wr' = [wr EXCEPT ![r] = m.writers]
     /\ announce' = [announce EXCEPT ![r] = a.ann]

\* Replica r now holds the prefixes sn of the logs lg: Autobase re-applies
\* the history ('update'), and a waiting profile announcement runs.
Update(r, lg, sn, ann) ==
  LET a == Announced(r, lg, sn, ann)
      m == Materialize(a.log, a.seen)
  IN /\ log' = a.log
     /\ seen' = [seen EXCEPT ![r] = a.seen]
     /\ view' = [view EXCEPT ![r] = m.view]
     /\ wr' = [wr EXCEPT ![r] = m.writers]
     /\ announce' = [announce EXCEPT ![r] = a.ann]

\* base.append(op) on replica r: the node is added to r's own log and
\* applied to r's view at once.
LocalAppend(r, type, key, value) ==
  Update(r, [log EXCEPT ![r] = Append(@, Node(r, type, key, value, seen[r]))],
         [seen[r] EXCEPT ![r] = @ + 1], announce[r])

\* A faulty replication that never fetches what the peer holds.
KeepOwn(x, y) == x

Max(x, y) == IF x >= y THEN x ELSE y

\* Replica r replicates the cores replica p holds.
Merge(r, p) ==
  /\ r # p
  /\ res[r].bee /\ res[p].bee
  /\ \E w \in Peers : seen[p][w] > seen[r][w]
  /\ Update(r, log, [w \in Peers |-> Max(seen[r][w], seen[p][w])], announce[r])
  /\ UNCHANGED <<regVars, apiVars, infoVars, pairer>>
  /\ UNCHANGED <<st, presented, reply, resolved, invite, res, lv, elapsed,
                 leaveErr, puts>>

----------------------------------------------------------------------------
(* Pairing: FlockManager.create(invite), FlockPairer, Flock._onAddMember   *)

\* FlockManager.create(invite) -> FlockManager.pair -> FlockPairer._open:
\* the candidate session transmits {inviteId, candidatePublicKey}.
StartPair(c, id) ==
  /\ st[c] = "idle"
  /\ st' = [st EXCEPT ![c] = "pairing"]
  /\ presented' = [presented EXCEPT ![c] = id]
  /\ pairer' = [pairer EXCEPT ![c] = NewPairer]
  /\ UNCHANGED <<regVars, apiVars, infoVars>>
  /\ UNCHANGED <<dataVars, reply, resolved, invite, res, lv, elapsed,
                 leaveErr, puts>>

\* Autobee.get(key): the value in the local view, null when absent.
\* Flock.get returns it as it is unless it is a string (FlockGet below).
get(r, key) == view[r][key]

\* A faulty _onAddMember: _connectOtherCore is handed the member's own key
\* instead of candidate.userData.
OnAddMemberOwnKey(m, c) ==
  /\ res[m].member
  /\ st[c] = "pairing"
  /\ reply[m][c] = "none"
  /\ LET inviteInfo == get(m, InviteKey) IN
     IF inviteInfo = Null \/ inviteInfo # presented[c]
     THEN /\ reply' = [reply EXCEPT ![m][c] = "ignored"]
          /\ UNCHANGED dataVars
     ELSE IF writable(m)
     THEN /\ LocalAppend(m, "addWriter", m, Null)
          /\ reply' = [reply EXCEPT ![m][c] = "appended"]
     ELSE /\ reply' = [reply EXCEPT ![m][c] = "failed"]
          /\ UNCHANGED dataVars
  /\ UNCHANGED <<regVars, apiVars, infoVars, pairer>>
  /\ UNCHANGED <<st, presented, resolved, invite, res, lv, elapsed, leaveErr,
                 puts>>

\* A faulty _onAddMember that consumes the invite: the record is deleted
\* together with the admission.
OnAddMemberConsume(m, c) ==
  /\ res[m].member
  /\ st[c] = "pairing"
  /\ reply[m][c] = "none"
  /\ LET inviteInfo == get(m, InviteKey) IN
     IF inviteInfo = Null \/ inviteInfo # presented[c]
     THEN /\ reply' = [reply EXCEPT ![m][c] = "ignored"]
          /\ UNCHANGED dataVars
     ELSE IF writable(m)
     THEN /\ LET sn1 == [seen[m] EXCEPT ![m] = @ + 1]
                 n1 == Node(m, "addWriter", c, Null, seen[m])
                 n2 == Node(m, "del", InviteKey, Null, sn1)
             IN Update(m, [log EXCEPT ![m] = @ \o <<n1, n2>>],
                       [sn1 EXCEPT ![m] = @ + 1], announce[m])
          /\ reply' = [reply EXCEPT ![m][c] = "appended"]
     ELSE /\ reply' = [reply EXCEPT ![m][c] = "failed"]
          /\ UNCHANGED dataVars
  /\ UNCHANGED <<regVars, apiVars, infoVars, pairer>>
  /\ UNCHANGED <<st, presented, resolved, invite, res, lv, elapsed, leaveErr,
                 puts>>

\* A faulty _onAddMember that treats the invite as single-use: a member
\* that has admitted one candidate ignores every later request.
OnAddMemberOnce(m, c) ==
  /\ res[m].member
  /\ st[c] = "pairing"
  /\ reply[m][c] = "none"
  /\ LET inviteInfo == get(m, InviteKey) IN
     IF \/ inviteInfo = Null \/ inviteInfo # presented[c]
        \/ \E d \in Peers : reply[m][d] \in {"appended", "confirmed", "lost"}
     THEN /\ reply' = [reply EXCEPT ![m][c] = "ignored"]
          /\ UNCHANGED dataVars
     ELSE IF writable(m)
     THEN /\ LocalAppend(m, "addWriter", c, Null)
          /\ reply' = [reply EXCEPT ![m][c] = "appended"]
     ELSE /\ reply' = [reply EXCEPT ![m][c] = "failed"]
          /\ UNCHANGED dataVars
  /\ UNCHANGED <<regVars, apiVars, infoVars, pairer>>
  /\ UNCHANGED <<st, presented, resolved, invite, res, lv, elapsed, leaveErr,
                 puts>>

\* A faulty _onAddMember that does not compare the invite id: any request
\* is admitted as long as a record is stored.
OnAddMemberAnyInvite(m, c) ==
  /\ res[m].member
  /\ st[c] = "pairing"
  /\ reply[m][c] = "none"
  /\ LET inviteInfo == get(m, InviteKey) IN
     IF inviteInfo = Null
     THEN /\ reply' = [reply EXCEPT ![m][c] = "ignored"]
          /\ UNCHANGED dataVars
     ELSE IF writable(m)
     THEN /\ LocalAppend(m, "addWriter", c, Null)
          /\ reply' = [reply EXCEPT ![m][c] = "appended"]
     ELSE /\ reply' = [reply EXCEPT ![m][c] = "failed"]
          /\ UNCHANGED dataVars
  /\ UNCHANGED <<regVars, apiVars, infoVars, pairer>>
  /\ UNCHANGED <<st, presented, resolved, invite, res, lv, elapsed, leaveErr,
                 puts>>

\* Flock._onAddMember up to and including `await this._connectOtherCore`:
\* look the invite up, ignore a mismatch, append addWriter for the candidate.
\* autobase.append throws on a replica that is not writable.
OnAddMember(m, c) ==
  /\ res[m].member
  /\ st[c] = "pairing"
  /\ reply[m][c] = "none"
  /\ LET inviteInfo == get(m, InviteKey) IN
     IF inviteInfo = Null \/ inviteInfo # presented[c]
     THEN /\ reply' = [reply EXCEPT ![m][c] = "ignored"]
          /\ UNCHANGED dataVars
     ELSE IF writable(m)
     THEN /\ LocalAppend(m, "addWriter", c, Null)
          /\ reply' = [reply EXCEPT ![m][c] = "appended"]
     ELSE /\ reply' = [reply EXCEPT ![m][c] = "failed"]
          /\ UNCHANGED dataVars
  /\ UNCHANGED <<regVars, apiVars, infoVars, pairer>>
  /\ UNCHANGED <<st, presented, resolved, invite, res, lv, elapsed, leaveErr,
                 puts>>

\* A faulty _onAddMember that confirms whether or not the append of
\* addWriter succeeded.
ConfirmUnappended(m, c) ==
  /\ reply[m][c] \in {"appended", "failed"}
  /\ reply' = [reply EXCEPT ![m][c] = "confirmed"]
  /\ IF st[c] = "pairing"
     THEN /\ st' = [st EXCEPT ![c] = "opening"]
          /\ res' = [res EXCEPT ![c].bee = TRUE]
     ELSE UNCHANGED <<st, res>>
  /\ pairer' = IF st'[c] # st[c] THEN [pairer EXCEPT ![c] = PassedPairer]
             ELSE pairer
  /\ UNCHANGED <<regVars, apiVars, infoVars>>
  /\ UNCHANGED <<dataVars, presented, resolved, invite, lv, elapsed, leaveErr,
                 puts>>

\* The rest of _onAddMember, candidate.confirm({key, encryptionKey}), and
\* the candidate's onadd: the first confirmation constructs the Flock (and
\* with it the Autobee) and closes the candidate session.  A confirmation
\* sent after the member session was closed may not arrive.
Confirm(m, c) ==
  /\ reply[m][c] = "appended"
  /\ \/ /\ reply' = [reply EXCEPT ![m][c] = "confirmed"]
        /\ IF st[c] = "pairing"
           THEN /\ st' = [st EXCEPT ![c] = "opening"]
                /\ res' = [res EXCEPT ![c].bee = TRUE]
           ELSE UNCHANGED <<st, res>>
     \/ /\ ~res[m].member
        /\ reply' = [reply EXCEPT ![m][c] = "lost"]
        /\ UNCHANGED <<st, res>>
  /\ pairer' = IF st'[c] # st[c] THEN [pairer EXCEPT ![c] = PassedPairer]
             ELSE pairer
  /\ UNCHANGED <<regVars, apiVars, infoVars>>
  /\ UNCHANGED <<dataVars, presented, resolved, invite, lv, elapsed, leaveErr,
                 puts>>

\* The id BlindPairing.createInvite would draw on replica r.
InviteIdOf == [a |-> GroupInviteId, b |-> "I2", c |-> "I3"]

\* Flock._createInvite on replica r: the stored record's invite when there
\* is one; else a new record is put, which throws on a read-only replica.
CreatesInvite(r) == get(r, InviteKey) = Null /\ writable(r)

\* finalize of FlockPairer._whenReady calls the resolve of finished(): it
\* settles the promise unless that was rejected before.  A flock created
\* without an invite has no pairer.
Resolves(c) == presented[c] # Undefined /\ rejected[c] = NoError

\* A faulty finalize whose resolve overrides an earlier rejection.
FlockOpenResolveAlways(c) ==
  /\ st[c] = "opening"
  /\ st' = [st EXCEPT ![c] = "open"]
  /\ res' = [res EXCEPT ![c] = AllRes]
  /\ invite' = [invite EXCEPT ![c] =
                  IF get(c, InviteKey) # Null THEN get(c, InviteKey)
                  ELSE IF writable(c) THEN InviteIdOf[c]
                  ELSE Undefined]
  /\ IF CreatesInvite(c)
     THEN Update(c, [log EXCEPT ![c] =
                       Append(@, Node(c, "put", InviteKey, InviteIdOf[c], seen[c]))],
                 [seen[c] EXCEPT ![c] = @ + 1], TRUE)
     ELSE Update(c, log, seen[c], TRUE)
  /\ resolved' = [resolved EXCEPT ![c] = presented[c] # Undefined]
  /\ allDataThere' = [allDataThere EXCEPT ![c] = @ + 1]
  /\ UNCHANGED <<infoUpdate, opening, updates, info>>
  /\ UNCHANGED <<regVars, apiVars, pairer>>
  /\ UNCHANGED <<presented, reply, lv, elapsed, leaveErr, puts>>

\* A faulty _createInvite that draws and stores a new invite on every open
\* of a writable replica.
FlockOpenRegenerate(c) ==
  /\ st[c] = "opening"
  /\ st' = [st EXCEPT ![c] = "open"]
  /\ res' = [res EXCEPT ![c] = AllRes]
  /\ invite' = [invite EXCEPT ![c] =
                  IF writable(c) THEN InviteIdOf[c] ELSE Undefined]
  /\ IF writable(c)
     THEN Update(c, [log EXCEPT ![c] =
                       Append(@, Node(c, "put", InviteKey, InviteIdOf[c], seen[c]))],
                 [seen[c] EXCEPT ![c] = @ + 1], TRUE)
     ELSE Update(c, log, seen[c], TRUE)
  /\ resolved' = [resolved EXCEPT ![c] = Resolves(c)]
  /\ allDataThere' = [allDataThere EXCEPT ![c] = @ + 1]
  /\ UNCHANGED <<infoUpdate, opening, updates, info>>
  /\ UNCHANGED <<regVars, apiVars, pairer>>
  /\ UNCHANGED <<presented, reply, lv, elapsed, leaveErr, puts>>

\* Flock._open of the candidate's flock, then FlockPairer._whenReady's
\* finalize: finished() resolves as soon as flock.ready() does.  A failure
\* of _createInvite is dropped by .catch(noop) and leaves invite undefined;
\* isNew starts _announceUserData.
FlockOpen(c) ==
  /\ st[c] = "opening"
  /\ st' = [st EXCEPT ![c] = "open"]
  /\ res' = [res EXCEPT ![c] = AllRes]
  /\ invite' = [invite EXCEPT ![c] =
                  IF get(c, InviteKey) # Null THEN get(c, InviteKey)
                  ELSE IF writable(c) THEN InviteIdOf[c]
                  ELSE Undefined]
  /\ IF CreatesInvite(c)
     THEN Update(c, [log EXCEPT ![c] =
                       Append(@, Node(c, "put", InviteKey, InviteIdOf[c], seen[c]))],
                 [seen[c] EXCEPT ![c] = @ + 1], TRUE)
     ELSE Update(c, log, seen[c], TRUE)
  /\ resolved' = [resolved EXCEPT ![c] = Resolves(c)]
  /\ allDataThere' = [allDataThere EXCEPT ![c] = @ + 1]
  /\ UNCHANGED <<infoUpdate, opening, updates, info>>
  /\ UNCHANGED <<regVars, apiVars, pairer>>
  /\ UNCHANGED <<presented, reply, lv, elapsed, leaveErr, puts>>

\* The opens followed on one flock.
MaxOpens == 2

\* FlockManager._close runs _exit on the flock: the member session, the
\* topic and the autobee are released; the group stays in the index.
FlockExit(r) ==
  /\ st[r] = "open"
  /\ lv[r] = "none"
  /\ allDataThere[r] < MaxOpens
  /\ st' = [st EXCEPT ![r] = "stored"]
  /\ res' = [res EXCEPT ![r] = NoRes]
  /\ UNCHANGED <<regVars, apiVars, infoVars, pairer>>
  /\ UNCHANGED <<dataVars, presented, reply, resolved, invite, lv, elapsed,
                 leaveErr, puts>>

\* A faulty _open that announces the profile whatever isNew is.
FlockReopenAnnounces(r) ==
  /\ st[r] = "stored"
  /\ st' = [st EXCEPT ![r] = "open"]
  /\ res' = [res EXCEPT ![r] = AllRes]
  /\ invite' = [invite EXCEPT ![r] =
                  IF get(r, InviteKey) # Null THEN get(r, InviteKey)
                  ELSE IF writable(r) THEN InviteIdOf[r]
                  ELSE Undefined]
  /\ IF CreatesInvite(r)
     THEN Update(r, [log EXCEPT ![r] =
                       Append(@, Node(r, "put", InviteKey, InviteIdOf[r], seen[r]))],
                 [seen[r] EXCEPT ![r] = @ + 1], TRUE)
     ELSE Update(r, log, seen[r], TRUE)
  /\ allDataThere' = [allDataThere EXCEPT ![r] = @ + 1]
  /\ UNCHANGED <<infoUpdate, opening, updates, info>>
  /\ UNCHANGED <<regVars, apiVars, pairer>>
  /\ UNCHANGED <<presented, reply, resolved, lv, elapsed, leaveErr, puts>>

\* Flock._open of a flock the manager's _open recreates from its index by
\* create(undefined, {custom, localId, userData}, false): isNew is false,
\* so _announceUserData is not started; the invite is read or created and
\* 'allDataThere' is emitted as in every _open.
FlockReopen(r) ==
  /\ st[r] = "stored"
  /\ st' = [st EXCEPT ![r] = "open"]
  /\ res' = [res EXCEPT ![r] = AllRes]
  /\ invite' = [invite EXCEPT ![r] =
                  IF get(r, InviteKey) # Null THEN get(r, InviteKey)
                  ELSE IF writable(r) THEN InviteIdOf[r]
                  ELSE Undefined]
  /\ IF CreatesInvite(r)
     THEN Update(r, [log EXCEPT ![r] =
                       Append(@, Node(r, "put", InviteKey, InviteIdOf[r], seen[r]))],
                 [seen[r] EXCEPT ![r] = @ + 1], announce[r])
     ELSE Update(r, log, seen[r], announce[r])
  /\ allDataThere' = [allDataThere EXCEPT ![r] = @ + 1]
  /\ UNCHANGED <<infoUpdate, opening, updates, info>>
  /\ UNCHANGED <<regVars, apiVars, pairer>>
  /\ UNCHANGED <<presented, reply, resolved, lv, elapsed, leaveErr, puts>>

\* Flock.set(key, data) on a writable replica: autobee.put appends a put.
Put(r) ==
  /\ st[r] = "open"
  /\ res[r].bee
  /\ writable(r)
  /\ puts[r] < MaxPuts
  /\ LocalAppend(r, "put", RaceKey, UserValue[r])
  /\ puts' = [puts EXCEPT ![r] = @ + 1]
  /\ UNCHANGED <<regVars, apiVars, infoVars, pairer>>
  /\ UNCHANGED <<st, presented, reply, resolved, invite, res, lv, elapsed,
                 leaveErr>>

\* Autobee.del(key) on a writable replica: a del is appended.
Del(r) ==
  /\ st[r] = "open"
  /\ res[r].bee
  /\ writable(r)
  /\ puts[r] < MaxPuts
  /\ LocalAppend(r, "del", RaceKey, Null)
  /\ puts' = [puts EXCEPT ![r] = @ + 1]
  /\ UNCHANGED <<regVars, apiVars, infoVars, pairer>>
  /\ UNCHANGED <<st, presented, reply, resolved, invite, res, lv, elapsed,
                 leaveErr>>

\* FlockPairer.close(), once per pairer: the candidate session is closed;
\* before the confirmation arrived the pairer still holds swarm and store
\* and destroys and closes them; then onreject(new Error('Pairing closed')),
\* which settles finished() unless it was settled before.  After onadd the
\* references are null and the flock that was constructed goes on opening.
PairingClosed == "Pairing closed"

PairerClose(c) ==
  /\ st[c] \in {"pairing", "opening", "open"}
  /\ pairer[c].candidate # "none"
  /\ ~pairer[c].closed
  /\ pairer' = [pairer EXCEPT ![c] =
                  [swarm |-> IF @.swarm = "held" THEN "released" ELSE @.swarm,
                   store |-> IF @.store = "held" THEN "released" ELSE @.store,
                   candidate |-> "closed",
                   closes |-> @.closes + 1,
                   closed |-> TRUE]]
  /\ rejected' = [rejected EXCEPT ![c] =
                    IF ~resolved[c] /\ @ = NoError THEN PairingClosed ELSE @]
  /\ st' = [st EXCEPT ![c] = IF @ = "pairing" THEN "closed" ELSE @]
  /\ UNCHANGED <<regVars, infoVars>>
  /\ UNCHANGED <<userData, lastSet, partition>>
  /\ UNCHANGED <<dataVars, presented, reply, resolved, invite, res, lv,
                 elapsed, leaveErr, puts>>

----------------------------------------------------------------------------
(* Flock.set and Flock.get: values, mapToJson and jsonToMap                *)

\* The JavaScript values Flock.set is called with and Flock.get returns: a
\* string (text: its characters), a Map of string pairs, an object (text
\* names it), null.
JsString(text) == [type |-> "string", text |-> text, pairs |-> <<>>]
JsObject(text) == [type |-> "object", text |-> text, pairs |-> <<>>]
JsMap(pairs) == [type |-> "map", text |-> "", pairs |-> pairs]
JsNull == [type |-> "null", text |-> Null, pairs |-> <<>>]

\* JSON.stringify of a string: the string in double quotes.
Quote == ("x" :> "\"x\"") @@ ("1" :> "\"1\"")

\* The JSON tokens of the strings of the model that hold brackets; any
\* other string is one bare word.
Chars ==
  ("[]" :> <<"[", "]">>) @@
  ("[[\"x\",\"1\"]]" :> <<"[", "[", "\"x\"", ",", "\"1\"", "]", "]">>) @@
  ("[draft]" :> <<"[", "draft", "]">>)
JsonTokens(text) == IF text \in DOMAIN Chars THEN Chars[text] ELSE <<text>>
TextOf(tokens) == CHOOSE text \in DOMAIN Chars : Chars[text] = tokens

\* mapToJson(map): JSON.stringify of the array of the map's [key, val]
\* pairs (the values of the model are strings that are neither maps nor
\* dates).
RECURSIVE PairsJson(_)
PairsJson(pairs) ==
  IF pairs = <<>> THEN <<>>
  ELSE <<"[", Quote[pairs[1][1]], ",", Quote[pairs[1][2]], "]">> \o
       (IF Len(pairs) > 1 THEN <<",">> \o PairsJson(Tail(pairs)) ELSE <<>>)
mapToJson(pairs) == <<"[">> \o PairsJson(pairs) \o <<"]">>

\* jsonToMap(jsonStr): new Map(JSON.parse(jsonStr).map(([key, val]) => ..)).
\* It throws (ok FALSE) when the text is not JSON, not an array, or holds
\* an element that is not a pair.
IsQuoted(token) == \E k \in DOMAIN Quote : Quote[k] = token
Unquote(token) == CHOOSE k \in DOMAIN Quote : Quote[k] = token
NotParsed == [ok |-> FALSE, pairs |-> <<>>]
RECURSIVE ParsePairs(_)
ParsePairs(t) ==
  IF /\ Len(t) >= 5
     /\ t[1] = "[" /\ IsQuoted(t[2]) /\ t[3] = "," /\ IsQuoted(t[4])
     /\ t[5] = "]"
  THEN LET pair == <<Unquote(t[2]), Unquote(t[4])>> IN
       IF Len(t) = 5 THEN [ok |-> TRUE, pairs |-> <<pair>>]
       ELSE IF t[6] = ","
       THEN LET rest == ParsePairs(SubSeq(t, 7, Len(t))) IN
            [ok |-> rest.ok, pairs |-> <<pair>> \o rest.pairs]
       ELSE NotParsed
  ELSE NotParsed
jsonToMap(t) ==
  IF Len(t) >= 2 /\ t[1] = "[" /\ t[Len(t)] = "]"
  THEN IF Len(t) = 2 THEN [ok |-> TRUE, pairs |-> <<>>]
       ELSE ParsePairs(SubSeq(t, 2, Len(t) - 1))
  ELSE NotParsed

\* The strings, maps and objects set is called with.
JsTexts == {"b", "[]", "[[\"x\",\"1\"]]", "[draft]"}
MapValues == {<<>>, << <<"x", "1">> >>}
HackerData == "{name: hacker}"
DataValues ==
  {JsString(t) : t \in JsTexts} \cup {JsMap(m) : m \in MapValues}
    \cup {JsObject(HackerData)}
ProfileValues == {JsString("b"), JsObject(HackerData), JsNull}

\* typeof data === 'string' for a value of the view.
IsString(d) == d \in JsTexts \cup {UserValue[p] : p \in Peers}

\* Flock.get(key): a string that jsonToMap accepts is returned as the Map;
\* anything else as it is.
FlockGet(r, key) ==
  LET d == get(r, key) IN
  IF d = Null THEN JsNull
  ELSE IF IsString(d)
  THEN LET parsed == jsonToMap(JsonTokens(d)) IN
       IF parsed.ok THEN JsMap(parsed.pairs) ELSE JsString(d)
  ELSE JsObject(d)

ProfileKeys == {ProfileKey[p] : p \in Peers}

\* A faulty set that puts under the key it is given, profile keys
\* included.
SetNoRedirect(r, key, data, encryptionKey) ==
  /\ st[r] = "open"
  /\ res[r].bee
  /\ writable(r)
  /\ puts[r] < MaxPuts
  /\ puts' = [puts EXCEPT ![r] = @ + 1]
  /\ LocalAppend(r, "put", key,
                 IF data.type = "map" THEN TextOf(mapToJson(data.pairs))
                 ELSE data.text)
  /\ lastSet' = [by |-> r, key |-> key, data |-> data,
                 enc |-> encryptionKey, ok |-> TRUE]
  /\ UNCHANGED <<userData, rejected, partition>>
  /\ UNCHANGED <<regVars, infoVars, pairer>>
  /\ UNCHANGED <<st, presented, reply, resolved, invite, res, lv, elapsed,
                 leaveErr>>

\* Flock.set(key, data, encryptionKey) on a writable replica.  A key under
\* flockInfo/members/ goes to _setUserData(data): a string throws; an
\* object becomes the flock's _userData, null leaves it as it is, and
\* _userData is put under the caller's own flockInfo/members/<myId> (Maps
\* are not passed for these keys here).  Any other key: a Map is turned
\* into its JSON text, and autobee.put appends the put.
Set(r, key, data, encryptionKey) ==
  /\ st[r] = "open"
  /\ res[r].bee
  /\ writable(r)
  /\ puts[r] < MaxPuts
  /\ puts' = [puts EXCEPT ![r] = @ + 1]
  /\ IF key \in ProfileKeys
     THEN IF data.type = "string"
          THEN /\ lastSet' = [by |-> r, key |-> key, data |-> data,
                              enc |-> encryptionKey, ok |-> FALSE]
               /\ UNCHANGED <<dataVars, userData>>
          ELSE LET own == IF data.type = "null" THEN userData[r]
                          ELSE data.text
               IN /\ userData' = [userData EXCEPT ![r] = own]
                  /\ LocalAppend(r, "put", ProfileKey[r], own)
                  /\ lastSet' = [by |-> r, key |-> key, data |-> data,
                                 enc |-> encryptionKey, ok |-> TRUE]
     ELSE /\ LocalAppend(r, "put", key,
                         IF data.type = "map"
                         THEN TextOf(mapToJson(data.pairs))
                         ELSE data.text)
          /\ lastSet' = [by |-> r, key |-> key, data |-> data,
                         enc |-> encryptionKey, ok |-> TRUE]
          /\ UNCHANGED userData
  /\ UNCHANGED <<rejected, partition>>
  /\ UNCHANGED <<regVars, infoVars, pairer>>
  /\ UNCHANGED <<st, presented, reply, resolved, invite, res, lv, elapsed,
                 leaveErr>>

----------------------------------------------------------------------------
(* The cached group info: _updateInfo and _queueInfoUpdate                 *)

MaxUpdates == 3         \* 'update' events of one autobee

\* _updateInfo calls of flock r that are between their start and the end
\* of their `await this.getByPrefix('flockInfo/')`: the one _open made
\* itself and the first of the chain.
Running(r) ==
  (IF opening[r] = "updating" THEN 1 ELSE 0) +
  (IF infoUpdate[r] > 0 THEN 1 ELSE 0)

\* _updateInfo calls chained on _infoUpdate that have not started.
Pending(r) == IF infoUpdate[r] > 0 THEN infoUpdate[r] - 1 ELSE 0

\* autobee 'update' (the listener _boot registered in the constructor):
\* _queueInfoUpdate chains one more _updateInfo on this._infoUpdate; it
\* starts when all chained before it have settled.
UpdateEvent(r) ==
  /\ updates[r] < MaxUpdates
  /\ updates' = [updates EXCEPT ![r] = @ + 1]
  /\ infoUpdate' = [infoUpdate EXCEPT ![r] = @ + 1]
  /\ info' = [info EXCEPT ![r].queued =
                IF infoUpdate[r] = 0 THEN updates[r] + 1 ELSE @]
  /\ UNCHANGED <<opening, allDataThere>>
  /\ UNCHANGED <<regVars, apiVars, pairer>>
  /\ UNCHANGED <<dataVars, st, presented, reply, resolved, invite, res, lv,
                 elapsed, leaveErr, puts>>

\* A faulty listener that emits 'update' without the recomputed info
\* having been assigned.
QueuedUpdateEmitsStale(r) ==
  /\ infoUpdate[r] > 0
  /\ infoUpdate' = [infoUpdate EXCEPT ![r] = @ - 1]
  /\ info' = [info EXCEPT ![r] =
                [at |-> @.at,
                 queued |-> IF infoUpdate[r] > 1 THEN updates[r] ELSE -1,
                 direct |-> @.direct,
                 emitted |-> @.emitted + 1]]
  /\ UNCHANGED <<opening, updates, allDataThere>>
  /\ UNCHANGED <<regVars, apiVars, pairer>>
  /\ UNCHANGED <<dataVars, st, presented, reply, resolved, invite, res, lv,
                 elapsed, leaveErr, puts>>

\* The running _updateInfo of the chain completes: this._info becomes what
\* it read, the promise _queueInfoUpdate returned for its event resolves
\* and the listener emits the flock's 'update'; the next one chained, if
\* any, starts and reads the view as it is now.
QueuedUpdateDone(r) ==
  /\ infoUpdate[r] > 0
  /\ infoUpdate' = [infoUpdate EXCEPT ![r] = @ - 1]
  /\ info' = [info EXCEPT ![r] =
                [at |-> @.queued,
                 queued |-> IF infoUpdate[r] > 1 THEN updates[r] ELSE -1,
                 direct |-> @.direct,
                 emitted |-> @.emitted + 1]]
  /\ UNCHANGED <<opening, updates, allDataThere>>
  /\ UNCHANGED <<regVars, apiVars, pairer>>
  /\ UNCHANGED <<dataVars, st, presented, reply, resolved, invite, res, lv,
                 elapsed, leaveErr, puts>>

\* _open, after autobee.ready(): `await this._updateInfo()`, called
\* directly and not through _queueInfoUpdate.
OpenUpdateStart(r) ==
  /\ opening[r] = "booted"
  /\ opening' = [opening EXCEPT ![r] = "updating"]
  /\ info' = [info EXCEPT ![r].direct = updates[r]]
  /\ UNCHANGED <<infoUpdate, updates, allDataThere>>
  /\ UNCHANGED <<regVars, apiVars, pairer>>
  /\ UNCHANGED <<dataVars, st, presented, reply, resolved, invite, res, lv,
                 elapsed, leaveErr, puts>>

\* The _updateInfo of _open completes, this._info becomes what it read,
\* and _open goes on.
OpenUpdateDone(r) ==
  /\ opening[r] = "updating"
  /\ opening' = [opening EXCEPT ![r] = "active"]
  /\ info' = [info EXCEPT ![r].at = info[r].direct, ![r].direct = -1]
  /\ UNCHANGED <<infoUpdate, updates, allDataThere>>
  /\ UNCHANGED <<regVars, apiVars, pairer>>
  /\ UNCHANGED <<dataVars, st, presented, reply, resolved, invite, res, lv,
                 elapsed, leaveErr, puts>>

----------------------------------------------------------------------------
(* The discovery topic: swarm.leave, swarm.join                            *)

MaxPartitions == 1      \* times one replica leaves the topic

LogLengths == [w \in Peers |-> Len(log[w])]

\* flock.swarm.leave(flock.autobee.discoveryKey): the replica is
\* partitioned from the others; it remembers how long the logs were.
SwarmLeave(r) ==
  /\ st[r] = "open"
  /\ lv[r] = "none"
  /\ res[r].topic
  /\ partition[r].n < MaxPartitions
  /\ res' = [res EXCEPT ![r].topic = FALSE]
  /\ partition' = [partition EXCEPT ![r].n = @ + 1, ![r].off = LogLengths]
  /\ UNCHANGED <<regVars, infoVars, pairer>>
  /\ UNCHANGED <<userData, lastSet, rejected>>
  /\ UNCHANGED <<dataVars, st, presented, reply, resolved, invite, lv,
                 elapsed, leaveErr, puts>>

\* flock.swarm.join(flock.autobee.discoveryKey) and flushed(): the replica
\* is back on the topic; missed are the nodes appended meanwhile.
SwarmJoin(r) ==
  /\ st[r] = "open"
  /\ lv[r] = "none"
  /\ ~res[r].topic
  /\ res' = [res EXCEPT ![r].topic = TRUE]
  /\ partition' = [partition EXCEPT ![r].missed =
                     @ \cup UNION {{<<w, i>> :
                                      i \in (partition[r].off[w] + 1)..Len(log[w])} :
                                    w \in Peers \ {r}}]
  /\ UNCHANGED <<regVars, infoVars, pairer>>
  /\ UNCHANGED <<userData, lastSet, rejected>>
  /\ UNCHANGED <<dataVars, st, presented, reply, resolved, invite, lv,
                 elapsed, leaveErr, puts>>

\* What replication between two connected replicas does to the cores the
\* receiver holds: the step by which r comes to hold all that p holds.
Deliver(r, p) ==
  /\ r # p
  /\ res[r].bee /\ res[p].bee
  /\ res[r].topic /\ res[p].topic
  /\ \E w \in Peers : seen[p][w] > seen[r][w]
  /\ seen' = [seen EXCEPT ![r] = [w \in Peers |-> Max(seen[r][w], seen[p][w])]]

\* Replication between two replicas that are both on the topic.
Sync(r, p) ==
  /\ res[r].topic /\ res[p].topic
  /\ Merge(r, p)

----------------------------------------------------------------------------
(* Flock.leave and Flock._exit                                             *)

\* leave(): with the local writer in quorum and more than one writer,
\* append removeWriter for the local key and start the confirmation wait.
LeaveStart(r) ==
  /\ st[r] = "open"
  /\ lv[r] = "none"
  /\ IF writable(r) /\ Cardinality(wr[r]) > 1
     THEN /\ LocalAppend(r, "removeWriter", r, Null)
          /\ lv' = [lv EXCEPT ![r] = "wait"]
     ELSE /\ lv' = [lv EXCEPT ![r] = "exit"]
          /\ UNCHANGED dataVars
  /\ UNCHANGED <<regVars, apiVars, infoVars, pairer>>
  /\ UNCHANGED <<st, presented, reply, resolved, invite, res, elapsed,
                 leaveErr, puts>>

\* leave(): the append of removeWriter throws; the error is recorded and
\* the wait is skipped.
LeaveAppendFail(r) ==
  /\ st[r] = "open"
  /\ lv[r] = "none"
  /\ writable(r) /\ Cardinality(wr[r]) > 1
  /\ leaveErr' = [leaveErr EXCEPT ![r] = "append"]
  /\ lv' = [lv EXCEPT ![r] = "exit"]
  /\ UNCHANGED <<regVars, apiVars, infoVars, pairer>>
  /\ UNCHANGED <<dataVars, st, presented, reply, resolved, invite, res,
                 elapsed, puts>>

\* Time passes while waitForUnwritable / delay(remaining) are pending.
LeaveTick(r) ==
  /\ lv[r] = "wait"
  /\ elapsed[r] < LEAVE_GRACE_MS
  /\ elapsed' = [elapsed EXCEPT ![r] = @ + TickMs]
  /\ UNCHANGED <<regVars, apiVars, infoVars, pairer>>
  /\ UNCHANGED <<dataVars, st, presented, reply, resolved, invite, res, lv,
                 leaveErr, puts>>

\* waitForUnwritable followed by delay(remaining): the wait ends when
\* LEAVE_GRACE_MS have passed, whether or not the removal was observed.
LeaveWaited(r) ==
  /\ lv[r] = "wait"
  /\ elapsed[r] >= LEAVE_GRACE_MS
  /\ lv' = [lv EXCEPT ![r] = "exit"]
  /\ UNCHANGED <<regVars, apiVars, infoVars, pairer>>
  /\ UNCHANGED <<dataVars, st, presented, reply, resolved, invite, res,
                 elapsed, leaveErr, puts>>

\* _exit run by leave(): member.close(), swarm.leave(topic),
\* autobee.close(), in that order; done of them complete before one throws
\* (3: none throws).  leave() records the error, emits 'leave' and ends.
ReleaseSteps == 3

\* A leave() that lets a failure of _exit replace the error it recorded for
\* the append.
ExitFromLastError(r, done) ==
  /\ lv[r] = "exit"
  /\ res' = [res EXCEPT ![r] =
               [member |-> IF done >= 1 THEN FALSE ELSE @.member,
                topic |-> IF done >= 2 THEN FALSE ELSE @.topic,
                bee |-> IF done >= 3 THEN FALSE ELSE @.bee]]
  /\ leaveErr' = [leaveErr EXCEPT ![r] =
                    IF done < ReleaseSteps THEN "exit" ELSE @]
  /\ lv' = [lv EXCEPT ![r] = "done"]
  /\ st' = [st EXCEPT ![r] = "left"]
  /\ UNCHANGED <<regVars, apiVars, infoVars, pairer>>
  /\ UNCHANGED <<dataVars, presented, reply, resolved, invite, elapsed, puts>>

ExitFrom(r, done) ==
  /\ lv[r] = "exit"
  /\ res' = [res EXCEPT ![r] =
               [member |-> IF done >= 1 THEN FALSE ELSE @.member,
                topic |-> IF done >= 2 THEN FALSE ELSE @.topic,
                bee |-> IF done >= 3 THEN FALSE ELSE @.bee]]
  /\ leaveErr' = [leaveErr EXCEPT ![r] =
                    IF @ = NoError /\ done < ReleaseSteps THEN "exit" ELSE @]
  /\ lv' = [lv EXCEPT ![r] = "done"]
  /\ st' = [st EXCEPT ![r] = "left"]
  /\ UNCHANGED <<regVars, apiVars, infoVars, pairer>>
  /\ UNCHANGED <<dataVars, presented, reply, resolved, invite, elapsed, puts>>

----------------------------------------------------------------------------

\* Peers joining: pairing requests, admissions, opening, replication.
JoinNext ==
  \/ \E c \in Peers, id \in InviteIds : StartPair(c, id)
  \/ \E m, c \in Peers : OnAddMember(m, c)
  \/ \E m, c \in Peers : Confirm(m, c)
  \/ \E c \in Peers : FlockOpen(c)
  \/ \E r, p \in Peers : Merge(r, p)

\* User data written by the members.
DataNext(authors) ==
  \/ \E r \in authors : Put(r)
  \/ \E r \in authors : Del(r)
  \/ \E r, p \in Peers : Merge(r, p)

\* The members that write user data while a member leaves.
Authors == {Founder, Joiner}

\* The peers that call leave().
Leavers == {Joiner}

\* How many releases of _exit complete: any number, or all of them.
AnyExit == 0..ReleaseSteps
CleanExit == {ReleaseSteps}

LeaveNext(outcomes) ==
  \/ \E r \in Leavers : LeaveStart(r)
  \/ \E r \in Leavers : LeaveAppendFail(r)
  \/ \E r \in Leavers : LeaveTick(r)
  \/ \E r \in Leavers : LeaveWaited(r)
  \/ \E r \in Leavers, done \in outcomes : ExitFrom(r, done)

Next == JoinNext \/ LeaveNext(AnyExit)

\* Both members of a group of two call leave(), possibly at the same time,
\* while their replicas go on replicating.
ConcurrentLeaveNext ==
  \/ \E r \in Authors : LeaveStart(r)
  \/ \E r \in Authors : LeaveAppendFail(r)
  \/ \E r \in Authors : LeaveTick(r)
  \/ \E r \in Authors : LeaveWaited(r)
  \/ \E r \in Authors, done \in CleanExit : ExitFrom(r, done)
  \/ \E r, p \in Authors : Merge(r, p)

\* One group from its creation: peers join and the joiner may leave; the
\* releases of _exit succeed.
Spec == Init /\ [][JoinNext \/ LeaveNext(CleanExit)]_vars
\* The founder's manager is closed and opened again on its storage.
ReopenNext ==
  \/ FlockExit(Founder)
  \/ FlockReopen(Founder)

\* One group from the founder's _open on: peers join, and the founder's
\* flock is exited and reopened from the index.
SpecReopen == InitBoot /\ [][JoinNext \/ ReopenNext]_vars
\* One group while peers join.
SpecJoin == Init /\ [][JoinNext]_vars
\* Three members writing user data.
SpecData == InitAdmitted /\ [][DataNext(Peers)]_vars
\* Members writing user data while the joiner leaves; the releases of _exit
\* succeed.
SpecQuorum == InitAdmitted /\ [][DataNext(Authors) \/ LeaveNext(CleanExit)]_vars
\* A group of two while the joiner leaves and a newcomer pairs.
SpecLeave == InitJoined /\ [][Next]_vars
\* A group of two whose members both leave.
SpecLeaveAll == InitJoined /\ [][ConcurrentLeaveNext]_vars
\* The registry of one manager.
SpecReg == Init /\ [][RegNext]_vars
\* One group from its creation while pairers may be closed.
PairNext ==
  \/ JoinNext
  \/ \E c \in Peers : PairerClose(c)
SpecPair == Init /\ [][PairNext]_vars
\* The founder's flock from its _open on, and peers joining.
SpecInvite == InitBoot /\ [][JoinNext]_vars
\* Two members calling set, on and off the topic.
SetKeys == {RaceKey} \cup {ProfileKey[p] : p \in Authors}
DataFor(key) == IF key \in ProfileKeys THEN ProfileValues ELSE DataValues
TopicNext ==
  \/ \E r \in Authors : SwarmLeave(r)
  \/ \E r \in Authors : SwarmJoin(r)
  \/ \E r, p \in Authors : Sync(r, p)
SetNext ==
  \/ \E r \in Authors, key \in SetKeys, encryptionKey \in BOOLEAN :
       \E data \in DataFor(key) : Set(r, key, data, encryptionKey)
  \/ TopicNext
SpecSet == InitJoined /\ [][SetNext]_vars
\* Two members writing while either may be partitioned; the swarm joins the
\* topic again and connected replicas replicate.
PartitionNext ==
  \/ \E r \in Authors : Put(r)
  \/ TopicNext
SpecPartition ==
  /\ InitJoined
  /\ [][PartitionNext]_vars
  /\ \A r \in Authors : WF_vars(SwarmJoin(r))
  /\ \A r, p \in Authors : WF_seen(Deliver(r, p))
\* The flocks of two members while merge events arrive during open and
\* after it.
InfoNext ==
  \/ \E r \in Authors : UpdateEvent(r)
  \/ \E r \in Authors : QueuedUpdateDone(r)
  \/ \E r \in Authors : OpenUpdateStart(r)
  \/ \E r \in Authors : OpenUpdateDone(r)
SpecInfo == Init /\ [][InfoNext]_vars
\* close() with its interval timer and its teardown running on; a save's
\* managerBee.get or put may stay pending for ever.
SpecCloseWait ==
  /\ Init
  /\ [][CloseWaitNext]_vars
  /\ WF_vars(ClosePoll)
  /\ WF_vars(CloseFinish)
SpecIsolation == Init /\ [][IsolationNext]_vars
SpecCloseCalls == Init /\ [][CloseCallsNext]_vars
\* Concurrent save and _remove calls of one registry.
SpecSaves == Init /\ [][SavesNext]_vars
\* One manager's swarm and flock under the fault harness.
SpecChaos == Init /\ [][ChaosNext]_vars
\* New flocks of one manager, leave() calls on them and close().
SpecLifecycle == Init /\ [][LifecycleNext]_vars
\* The registry of one manager over close() and restarts.
SpecIndex == Init /\ [][CreateNext(OneInvite, Customs) \/ CloseNext]_vars
\* The registry while the manager's profile is set.
SpecUserData ==
  /\ Init
  /\ [][UserDataNext]_vars
  /\ \A id \in LocalIds : WF_vars(Replicate(id))

----------------------------------------------------------------------------
(* Properties                                                              *)

\* What replica r has merged, and whether that is everything there is.
History(r) == NodesAt(log, seen[r])
Full(r) == \A w \in Peers : seen[r][w] = Len(log[w])
AllNodes == UNION {{log[w][i] : i \in 1..Len(log[w])} : w \in Peers}

\* n is in the causal past of m.
HappensBefore(n, m) == n # m /\ n.clock[n.from] <= m.clock[n.from]
Concurrent(n, m) == n # m /\ ~HappensBefore(n, m) /\ ~HappensBefore(m, n)

Admitted == {"appended", "confirmed", "lost"}

RaceNodes == {n \in AllNodes : n.key = RaceKey}

C2_ResolvesOnlyWritable ==
  [][\A c \in Peers : (resolved'[c] /\ ~resolved[c]) => c \in wr'[c]]_vars

Paired == {c \in Peers : \E m \in Peers : reply[m][c] = "confirmed"}

\* C3 (one writer per pairing): on every replica that has merged the whole
\* history, with every appended admission confirmed, the writer set holds
\* the founder and exactly the candidates whose pairing was confirmed.
C3_WritersPerPairing ==
  \A r \in Peers :
    (Full(r) /\ \A m, c \in Peers : reply[m][c] \notin {"appended", "lost"}) =>
       Cardinality(wr[r]) = Cardinality(Paired) + 1

\* Two candidates completed pairing and every replica has merged everything:
\* three writers.
C3_Witness ==
  /\ Cardinality(Paired) = 2
  /\ \A m, c \in Peers : reply[m][c] \notin {"appended", "lost"}
  /\ \A r \in Peers : Full(r) /\ st[r] = "open" /\ Cardinality(wr[r]) = 3

MembershipNodes(S) == {n \in S : n.type \in {"addWriter", "removeWriter"}}

\* C4 (quorum only through membership operations): on every replica each
\* writer other than the founder has an addWriter in the merged history, and
\* the writer set is what the addWriter / removeWriter operations of that
\* history alone produce: put and del do not change it.
C4_QuorumByMembershipOps ==
  \A r \in Peers :
    /\ \A w \in wr[r] \ {Founder} :
         \E n \in History(r) : n.type = "addWriter" /\ n.key = w
    /\ wr[r] = Replay(Linearize(MembershipNodes(History(r))), Bootstrap).writers

\* A replica has merged a put and a del of the shared key, the admission of
\* the newcomer and the removal of the joiner.
C4_Witness ==
  \E r \in Peers :
    /\ \E n \in History(r) : n.type = "put" /\ n.key = RaceKey
    /\ \E n \in History(r) : n.type = "del"
    /\ \E n \in History(r) : n.type = "removeWriter"
    /\ wr[r] = {Founder, Newcomer}

\* C5 (bounded leave): when leave() has completed, the confirmation wait
\* took no longer than the grace period and the member session, the
\* discovery topic and the log/view are all released.
C5_BoundedLeaveReleases ==
  \A r \in Peers :
    lv[r] = "done" => elapsed[r] <= LEAVE_GRACE_MS /\ res[r] = NoRes

Remaining(l) == {r \in Peers \ {l} : st[r] = "open"}

\* C6 (leave decrements the quorum): once a writer's leave() has completed
\* and its log/view is closed, and the remaining replicas have merged all
\* that any of them holds, the leaver is in no remaining replica's quorum.
C6_LeaverRemovedEverywhere ==
  \A l \in Peers :
    (/\ lv[l] = "done" /\ ~res[l].bee
     /\ \A r1, r2 \in Remaining(l) : seen[r1] = seen[r2]) =>
       \A r \in Remaining(l) : l \notin wr[r]

Undecodable == {t \in Tokens \ {NoInvite} : decodeInvite(t) = Throws}

\* C7 (invalid invite): a create(invite) whose token does not decode returns
\* false, starts no pairing, registers no flock, and leaves the group map,
\* the discovery key set and the stored index as they were.
C7_InvalidInviteChangesNothing ==
  [][(lastCall' # lastCall /\ lastCall'.token \in Undecodable) =>
       /\ lastCall'.ret = "false"
       /\ UNCHANGED <<all, discoveryKeys, managerInfo, pairers, nextId>>]_vars

\* create was called with an undecodable token on a manager that holds a
\* flock and awaits a pairing, and returned false.
C7_Witness ==
  /\ lastCall.token \in Undecodable
  /\ lastCall.ret = "false"
  /\ \E i \in LocalIds : all[i] # NoFlock
  /\ pairers # {}

Joined(dk) == \E i \in LocalIds : all[i] # NoFlock /\ all[i].dk = dk

\* C8 (already joined): the registry never holds two flocks of one discovery
\* key, and a create(invite) for a discovery key the registry holds a flock
\* of starts no pairing.
C8_NoDuplicateGroup ==
  /\ [](\A i, j \in LocalIds :
          (i # j /\ all[i] # NoFlock /\ all[j] # NoFlock) =>
             all[i].dk # all[j].dk)
  /\ [][(lastCall' # lastCall /\ Joined(decodeInvite(lastCall'.token))) =>
          pairers' = pairers]_vars

C10_Admits ==
  \A m, c \in Peers :
    (reply[m][c] = "none" /\ reply'[m][c] = "ignored") =>
       presented[c] # GroupInviteId \/ seen[m][Founder] = 0

\* A candidate whose addWriter a replica has merged, and whose removal it has
\* not, is a writer there; a writable candidate sees the invite record and
\* the founder's profile, written before it joined.
C10_Joined ==
  \A c \in Peers \ {Founder} :
    /\ \A r \in Peers :
         (/\ \E n \in History(r) : n.type = "addWriter" /\ n.key = c
          /\ ~\E n \in History(r) : n.type = "removeWriter" /\ n.key = c) =>
            c \in wr[r]
    /\ writable(c) =>
         /\ get(c, InviteKey) = GroupInviteId
         /\ get(c, ProfileKey[Founder]) = Profile[Founder]

\* C10 (one invite for every candidate): no member that holds the invite
\* record ignores a request presenting the group's invite, whoever was
\* admitted or has left before; every candidate admitted is a writer on the
\* replicas that merged its admission, and sees the data written before.
C10_InviteAdmitsEveryCandidate == []C10_Joined /\ [][C10_Admits]_vars

\* The joiner has left, and the founder then admitted the newcomer: the
\* addWriter for the newcomer has the joiner's removeWriter in its causal
\* past, and the newcomer is writable and sees the joiner's profile.
C10_Witness ==
  /\ lv[Joiner] = "done"
  /\ \E n \in AllNodes, rm \in AllNodes :
       /\ n.type = "addWriter" /\ n.key = Newcomer
       /\ rm.type = "removeWriter" /\ rm.key = Joiner
       /\ HappensBefore(rm, n)
  /\ presented[Newcomer] = GroupInviteId
  /\ writable(Newcomer) /\ st[Newcomer] = "open"
  /\ Joiner \notin wr[Newcomer]
  /\ get(Newcomer, ProfileKey[Joiner]) = Profile[Joiner]

\* C11 (profile isolation): a set on another writer's profile key, with or
\* without an encryption key, leaves the value under that key unchanged on
\* every replica; every node under a profile key is its owner's.
C11_ProfileIsolation ==
  /\ [](\A n \in AllNodes : n.key \in ProfileKeys => n.key = ProfileKey[n.from])
  /\ [][\A o \in Peers :
          (lastSet' # lastSet /\ lastSet'.key = ProfileKey[o] /\ lastSet'.by # o)
            => \A r \in Peers : view'[r][ProfileKey[o]] = view[r][ProfileKey[o]]]_vars

\* C11 witness: the joiner has set an object on the founder's profile key,
\* both replicas hold the whole history, and both still read the founder's
\* own profile there.
C11_Witness ==
  /\ lastSet.by = Joiner /\ lastSet.key = ProfileKey[Founder]
  /\ lastSet.ok /\ lastSet.data = JsObject(HackerData)
  /\ Full(Founder) /\ Full(Joiner)
  /\ \A r \in Authors : FlockGet(r, ProfileKey[Founder]) = JsObject(Profile[Founder])

\* C12 (pairing closed): finished() is never both resolved and rejected and
\* never changes once settled; it resolves only with a flock whose _open
\* has completed; a pairer closed before the confirmation arrived rejects
\* it with 'Pairing closed'.
C12_FinishedSettlesOnce ==
  /\ [](\A c \in Peers : ~(resolved[c] /\ rejected[c] # NoError))
  /\ [](\A c \in Peers : resolved[c] => (st[c] = "open" /\ res[c] = AllRes))
  /\ [][\A c \in Peers :
          /\ (st[c] = "pairing" /\ st'[c] = "closed")
               => rejected'[c] = PairingClosed
          /\ resolved[c] => resolved'[c]
          /\ rejected[c] # NoError => rejected'[c] = rejected[c]]_vars

\* C12 witness: a pairer closed after the confirmation arrived and before
\* the flock was ready: finished() is rejected, the flock opened later and
\* did not resolve it.
C12_Witness ==
  \E c \in Peers :
    /\ rejected[c] = PairingClosed
    /\ st[c] = "open"
    /\ ~resolved[c]

\* C13 (read your writes): right after set(k, v) has resolved on a replica,
\* get(k) on that replica returns v, provided no other writer wrote k.
C13_ReadYourWrites ==
  [][(/\ lastSet' # lastSet
      /\ lastSet'.ok
      /\ \A n \in AllNodes' : n.key = lastSet'.key => n.from = lastSet'.by)
       => (FlockGet(lastSet.by, lastSet.key) = lastSet.data)']_vars

Missing(r) == \E m \in partition[r].missed : seen[r][m[1]] < m[2]
NoDuplicates(seq) == \A i, j \in 1..Len(seq) : seq[i] = seq[j] => i = j

C16_IdempotentReplay ==
  \A r \in Peers :
    LET H == Linearize(History(r))
        once == apply(H, Bootstrap)
    IN /\ apply(H \o H, Bootstrap) = once
       /\ apply(H, once) = once
       /\ Replay(H, Bootstrap) = [view |-> view[r], writers |-> wr[r]]

\* C16 witness: the founder holds a whole history with an admission, a
\* removal and user data: the newcomer is a writer, the joiner is not any
\* more, and the shared key has a value.
C16_Witness ==
  /\ Full(Founder)
  /\ \E n \in History(Founder) : n.type = "removeWriter"
  /\ \E n \in History(Founder) : n.type = "del"
  /\ wr[Founder] = {Founder, Newcomer}
  /\ get(Founder, RaceKey) # Null

InvitePuts(w) == {i \in 1..Len(log[w]) : log[w][i].key = InviteKey}

\* C17 (createInvite is idempotent): an open that finds an invite record in
\* the view returns that record's invite and writes no invite record; an
\* invite record is written only by a replica whose view had none.
C17_CreateInviteIdempotent ==
  [][\A r \in Peers :
       /\ (st[r] = "opening" /\ st'[r] = "open" /\ get(r, InviteKey) # Null)
            => /\ invite'[r] = get(r, InviteKey)
               /\ InvitePuts(r)' = InvitePuts(r)
               /\ get(r, InviteKey)' = get(r, InviteKey)
       /\ InvitePuts(r)' # InvitePuts(r) => get(r, InviteKey) = Null]_vars

\* C17 witness: the founder's open stored the invite record, and a joiner
\* that had replicated it opened, returned the same invite and wrote none.
C17_Witness ==
  /\ InvitePuts(Founder) = {1}
  /\ invite[Founder] = GroupInviteId
  /\ \E c \in Peers \ {Founder} :
       /\ st[c] = "open"
       /\ writable(c)
       /\ invite[c] = GroupInviteId
       /\ InvitePuts(c) = {}

Registered == {i \in LocalIds : all[i] # NoFlock}
Indexed == {i \in LocalIds : managerInfo[i] # Null}

\* C15 (profile reaches the joiner): the profile set through
\* FlockManager.setUserData is the profile of every flock of the registry,
\* and in every group that another member has joined it is eventually the
\* profile that member reads under flockInfo/members/<founderId>.
C15_ProfileReachesJoiner ==
  /\ [](\A id \in Registered : shared[id].mine = muser)
  /\ \A id \in LocalIds :
       [](shared[id].joined => <>(shared[id].theirs = muser))

\* C15 witness: two groups of one registry, both joined, and the joiner of
\* each reads the profile that setUserData stored.
C15_Witness ==
  /\ muser \in UserDatas
  /\ \E i, j \in Registered :
       /\ i # j
       /\ shared[i].joined /\ shared[i].theirs = muser
       /\ shared[j].joined /\ shared[j].theirs = muser

\* C18 (index follows the groups): once no save or _remove is in flight,
\* the durable index holds an entry for every registered group that
\* create() returned as new, and no entry for a group that has left.
C18_IndexTracksGroups ==
  (mgr = "open" /\ ops = {}) =>
    \A id \in LocalIds :
      /\ (id \in Registered /\ all[id].isNew) => id \in Indexed
      /\ id \in left => id \notin Indexed

C20_CloseWaitsForSaves ==
  \A op \in ops : op.kind = "save" => mgr \notin {"teardown", "closed"}

\* C21 (bounded shutdown wait): a close() that waits for a save ends its
\* wait and closes the manager, even if that save never completes.
C21_CloseTerminates == (mgr = "waiting") ~> (mgr = "closed")

\* C22 (idempotent shutdown): however many close() calls are made, one
\* after another or overlapping, _close exits each registered flock once
\* and closes each shared resource once, and a closed manager has an empty
\* group map.
C22_CloseOnce ==
  /\ [](\A id \in LocalIds : exits[id] <= 1)
  /\ [](\A x \in Resources : released[x] <= 1)
  /\ [](mgr = "closed" =>
          /\ Registered = {}
          /\ \A x \in Resources : released[x] = 1)
  /\ [][(mgr = "teardown" /\ mgr' = "closed") =>
          \A id \in Registered : exits'[id] = 1]_vars

\* C22 witness: a manager with two flocks was closed by three close()
\* calls: each flock exited once, each resource was closed once.
C22_Witness ==
  /\ mgr = "closed"
  /\ closeCalls = MaxCloses
  /\ Cardinality({id \in LocalIds : exits[id] = 1}) >= 2
  /\ \A x \in Resources : released[x] = 1

\* C23 (failure isolation): while the manager is open, whatever pairing
\* was closed or rejected and whatever flock has left, the swarm the flocks
\* share has not been destroyed and no registered flock's store has been
\* closed.
C23_FailureIsolation ==
  mgr = "open" =>
    \A id \in Registered :
      /\ released["swarm"] = 0
      /\ released[Namespace[id]] = 0

\* C24 (no concurrent recompute): at no time are two _updateInfo runs of
\* one flock in progress.
C24_OneRecomputeAtATime == \A r \in Peers : Running(r) <= 1

\* C25 (depth-one queue): while one recompute is running, at most one
\* further recompute is pending, however many merge events arrived.
C25_AtMostOnePending == \A r \in Peers : Pending(r) <= 1

AddWriterAppended(m, c) ==
  \E i \in 1..Len(log[m]) : log[m][i].type = "addWriter" /\ log[m][i].key = c

\* C27 (admission ordering): a member confirms a candidate only when the
\* addWriter for that candidate is already in the member's own log; a
\* request whose append failed is never confirmed; and a candidate builds
\* its flock only on a confirmation.
C27_ConfirmAfterAppend ==
  /\ [][\A m, c \in Peers :
          (reply'[m][c] = "confirmed" /\ reply[m][c] # "confirmed")
            => AddWriterAppended(m, c)]_vars
  /\ [][\A m, c \in Peers :
          reply[m][c] = "failed" => reply'[m][c] = "failed"]_vars
  /\ [][\A c \in Peers :
          (st[c] = "pairing" /\ st'[c] = "opening")
            => \E m \in Peers : reply'[m][c] = "confirmed"]_vars

\* C27 witness: one candidate was confirmed by a member whose log holds
\* its addWriter, and another request failed at the append and has no
\* confirmation.
C27_Witness ==
  \E m, c \in Peers :
    /\ reply[m][c] = "confirmed"
    /\ AddWriterAppended(m, c)
    /\ \E m2, c2 \in Peers :
         /\ reply[m2][c2] = "failed"
         /\ ~AddWriterAppended(m2, c2)
         /\ st[c2] = "pairing"

Mismatch(m, c) ==
  get(m, InviteKey) = Null \/ get(m, InviteKey) # presented[c]

\* C28 (mismatch is ignored silently): a request whose invite id is not
\* the stored record's, or that meets no stored record, is only ever
\* ignored: the step that handles it changes no log, view or writer set,
\* no peer's state or resources, and no error is raised; it is never
\* answered later.
C28_MismatchIgnored ==
  /\ [][\A m, c \in Peers :
          (reply[m][c] = "none" /\ reply'[m][c] # "none" /\ Mismatch(m, c))
            => /\ reply'[m][c] = "ignored"
               /\ log' = log /\ seen' = seen /\ view' = view /\ wr' = wr
               /\ st' = st /\ res' = res
               /\ rejected' = rejected /\ leaveErr' = leaveErr]_vars
  /\ [][\A m, c \in Peers :
          reply[m][c] = "ignored" => reply'[m][c] = "ignored"]_vars

\* C28 witness: the founder ignored a request with a foreign invite id;
\* the candidate is still pairing and no addWriter for it was appended.
C28_Witness ==
  \E c \in Peers :
    /\ presented[c] \notin {Undefined, GroupInviteId}
    /\ reply[Founder][c] = "ignored"
    /\ st[c] = "pairing"
    /\ ~AddWriterAppended(Founder, c)

\* C29 (no dangling writer): once a candidate's pairing has failed, the
\* candidate's key is in no member's writer set.
C29_NoDanglingWriter ==
  \A c \in Peers :
    (st[c] = "closed" /\ rejected[c] # NoError) =>
      \A m \in Peers : c \notin wr[m]

\* C30 (a rejected pairing is torn down): whenever finished() of a pairer
\* has been rejected, its candidate session has been closed once, it holds
\* neither swarm nor store any more, and the flock it constructed, if any,
\* holds no resource.
C30_RejectedReleasesAll ==
  \A c \in Peers :
    rejected[c] # NoError =>
      /\ pairer[c].candidate = "closed" /\ pairer[c].closes = 1
      /\ pairer[c].swarm # "held" /\ pairer[c].store # "held"
      /\ res[c] = NoRes

\* C26 (leave keeps a writer): the writer set of a group of two never
\* becomes empty on a member's replica, whoever calls leave() and when.
C26_QuorumNeverEmpty == \A r \in Authors : wr[r] # {}


\* C31 (append failure during leave): when the append of removeWriter
\* fails, leave() records the error without appending and without starting
\* the confirmation wait, goes on to _exit, and completes (after 'leave')
\* with the recorded append error, whatever _exit did.
C31_AppendFailureStillExits ==
  [][\A r \in Peers :
       /\ (leaveErr[r] = NoError /\ leaveErr'[r] = "append") =>
            /\ lv'[r] = "exit"
            /\ elapsed'[r] = elapsed[r]
            /\ log' = log
       /\ leaveErr[r] = "append" =>
            /\ leaveErr'[r] = "append"
            /\ elapsed'[r] = elapsed[r]
            /\ lv'[r] \in {"exit", "done"}
            /\ (lv[r] = "exit" /\ res'[r] # res[r]) => lv'[r] = "done"]_vars

\* The joiner's leave() has completed with the append error although a
\* release of _exit failed as well.
C31_Witness ==
  /\ leaveErr[Joiner] = "append"
  /\ lv[Joiner] = "done"
  /\ st[Joiner] = "left"
  /\ elapsed[Joiner] = 0
  /\ res[Joiner].bee


\* C32 (linear lifecycle): whatever the interleaving of leave() calls on a
\* group and close() of its registry, _exit (release of the member session,
\* topic leave, log close, 'closed') runs at most once on each group.
C32_ClosedAtMostOnce == \A id \in LocalIds : exits[id] <= 1


\* A profile put that the step appends to c's own log, or an announcement
\* that the step leaves waiting for c to become writable.
PublishStarted(c) ==
  \/ announce'[c] /\ ~announce[c]
  \/ \E i \in (Len(log[c]) + 1)..Len(log'[c]) : log'[c][i].key = ProfileKey[c]

\* C33 as stated (publish on open): an open publishes the local profile
\* exactly when the instance creates the group, not when it joins through
\* an invite or reopens a known group; every open emits 'allDataThere'.
C33_PublishesOnlyWhenCreating ==
  [][\A c \in Peers :
       (st[c] # "open" /\ st'[c] = "open") =>
         /\ allDataThere'[c] = allDataThere[c] + 1
         /\ PublishStarted(c) <=>
              (st[c] = "opening" /\ presented[c] = Undefined)]_vars

\* C33 (publish on open, amended): an open publishes the local profile
\* exactly when the flock is new, that is created or joined through an
\* invite, and not when it is reopened from the index; every open emits
\* 'allDataThere' once.
C33_PublishesIffNew ==
  [][\A c \in Peers :
       (st[c] # "open" /\ st'[c] = "open") =>
         /\ allDataThere'[c] = allDataThere[c] + 1
         /\ PublishStarted(c) <=> st[c] = "opening"]_vars

ProfilePuts(r) ==
  {i \in 1..Len(log[r]) : log[r][i].key = ProfileKey[r]}

\* The founder has created the group and reopened it, having published its
\* profile once; the joiner has opened and published its own.
C33_Witness ==
  /\ allDataThere[Founder] = 2
  /\ st[Founder] = "open"
  /\ Cardinality(ProfilePuts(Founder)) = 1
  /\ allDataThere[Joiner] = 1
  /\ presented[Joiner] # Undefined
  /\ Cardinality(ProfilePuts(Joiner)) = 1


\* C34 (storage failures propagate): a flock whose open could not store the
\* invite record (the put threw, so the flock has no invite) did not open
\* successfully: its finished() was not resolved with the flock.
C34_OpenPropagatesStorageFailure ==
  \A c \in Peers :
    (st[c] = "open" /\ invite[c] = Undefined) => ~resolved[c]


C36_InertWhileDisabled ==
  /\ [][(~enabled /\ ~enabled') =>
          /\ \A c \in Conns :
               /\ conns'[c].paused => conns[c].paused
               /\ conns'[c].destroyed = conns[c].destroyed
               /\ (conns'[c].known /\ ~conns[c].known) => conns'[c].delivered
               /\ conns'[c].issued > conns[c].issued =>
                    conns'[c].forwarded =
                      Append(conns[c].forwarded, conns'[c].issued)
          /\ \A f \in ChaosFlocks :
               chaosFlocks'[f].joined = chaosFlocks[f].joined]_vars
  /\ [][(~enabled /\ enabled') =>
          /\ \A c \in Conns : conns[c].known => conns'[c].patched
          /\ \A f \in ChaosFlocks :
               chaosFlocks[f].known => chaosFlocks'[f].partitionEpoch = epoch']_vars
  /\ [](enabled =>
          /\ \A c \in Conns : conns[c].known => conns[c].patched
          /\ \A f \in ChaosFlocks :
               chaosFlocks[f].known => chaosFlocks[f].partitionEpoch = epoch)
  /\ [][(enabled /\ ~enabled') => timers' = <<>>]_vars

\* After a teardown: the connection registered before enabling was patched
\* by it, the one that came while enabled was delivered late, and a write
\* issued after the teardown on a patched connection went straight through.
C36_Witness ==
  /\ ~enabled
  /\ epoch = 1
  /\ conns["c1"].patched /\ conns["c1"].delivered
  /\ conns["c1"].forwarded = <<1>>
  /\ conns["c2"].patched
  /\ chaosFlocks["f1"].partitionEpoch = 1
  /\ timers = <<>>


\* C40 (wrapped writes keep their order): on every connection the chunks
\* reach the underlying connection at most once each and in the order in
\* which the writes were issued.
C40_WritesForwardedInOrder ==
  \A c \in Conns :
    \A i, j \in 1..Len(conns[c].forwarded) :
      i < j => conns[c].forwarded[i] < conns[c].forwarded[j]


\* C37 (no lost index update): once every save and _remove call has
\* completed, each group that was created (and so saved) and has not left
\* has its entry in the durable index.
C37_NoLostIndexUpdate ==
  (mgr = "open" /\ ops = {}) => \A id \in Registered : id \in Indexed


InviteNodes == {n \in AllNodes : n.key = InviteKey}

\* C38 (one invite record): all logs together hold at most one invite
\* record, written by the founder; on every replica the record, once in
\* the view, keeps its value; and every open replica that has an invite has
\* the invite of that record.
C38_OneInviteRecord ==
  /\ [](/\ Cardinality(InviteNodes) <= 1
        /\ \A n \in InviteNodes : n.from = Founder
        /\ \A r \in Peers :
             (st[r] = "open" /\ invite[r] # Undefined) =>
               \A n \in InviteNodes : invite[r] = n.value)
  /\ [][\A r \in Peers :
          get(r, InviteKey) # Null => get(r, InviteKey)' = get(r, InviteKey)]_vars

\* The founder wrote the record and reopened; both joiners opened writable
\* with the record replicated and report the founder's invite.
C38_Witness ==
  /\ Cardinality(InviteNodes) = 1
  /\ allDataThere[Founder] = 2
  /\ invite[Founder] = GroupInviteId
  /\ \A c \in {Joiner, Newcomer} :
       /\ st[c] = "open"
       /\ writable(c)
       /\ invite[c] = invite[Founder]
       /\ get(c, InviteKey) = GroupInviteId


\* The step is a Flock.set call by r on a key under flockInfo/members/.
ProfileSet(r) ==
  /\ lastSet' # lastSet
  /\ lastSet'.by = r
  /\ lastSet'.key \in ProfileKeys

\* The step appends to r's log one put of value under r's own profile key
\* and nothing else.
PutsOwnProfile(r, value) ==
  /\ Len(log'[r]) = Len(log[r]) + 1
  /\ log'[r][Len(log'[r])].key = ProfileKey[r]
  /\ log'[r][Len(log'[r])].value = value
  /\ \A w \in Peers \ {r} : log'[w] = log[w]

\* C39 (set on a profile key): whichever member the key names, the call
\* writes under no key but the caller's own profile key.  With an object it
\* replaces the caller's local profile and puts the object under the
\* caller's own key; with null there is no profile given, the local one is
\* kept and put again; a string is rejected and nothing is written.
C39_SetRedirectsToOwnProfile ==
  [][\A r \in Peers :
       ProfileSet(r) =>
         IF lastSet'.data.type = "object"
         THEN /\ lastSet'.ok
              /\ userData'[r] = lastSet'.data.text
              /\ PutsOwnProfile(r, lastSet'.data.text)
         ELSE IF lastSet'.data.type = "null"
         THEN /\ lastSet'.ok
              /\ userData'[r] = userData[r]
              /\ PutsOwnProfile(r, userData[r])
         ELSE /\ ~lastSet'.ok
              /\ userData' = userData
              /\ log' = log]_vars

\* The joiner set an object on the founder's profile key: the object is
\* the joiner's local profile and the last put of the joiner's log, under
\* the joiner's own key.
C39_Witness ==
  /\ lastSet.by = Joiner /\ lastSet.key = ProfileKey[Founder]
  /\ lastSet.data = JsObject(HackerData)
  /\ userData[Joiner] = HackerData
  /\ log[Joiner][Len(log[Joiner])].key = ProfileKey[Joiner]
  /\ log[Joiner][Len(log[Joiner])].value = HackerData

====
